---- MODULE Spec2Model ----
(***************************************************************************)
(* Model of the socketry/toolbox debugger extensions: the Ruby heap        *)
(* scanner (data/toolbox/heap.py), the fiber unwinder                      *)
(* (data/toolbox/fiber.py), the VALUE classifier (data/toolbox/value.py),  *)
(* the AR hash table (rhash.py), the RString factory (rstring.py) and the  *)
(* backtrace printer (stack.py).                                           *)
(*                                                                         *)
(* Memory is modelled in machine words: one address unit is one VALUE      *)
(* (8 bytes), so _value_size is 1 and _flags_offset is 0.                  *)
(***************************************************************************)
EXTENDS Integers, Sequences, FiniteSets, TLC

VARIABLES
    pages,          \* objspace.heap_pages.sorted: the page table of the snapshot
    bulk_ok,        \* pages whose whole range debugger.read_memory reads at once
    call,           \* arguments of the last scan call: type_flag, limit, from_address
    objects,        \* objects returned by the last scan call (their addresses)
    next_address,   \* next_address returned by the last scan call
    warned,         \* the last call printed "not found in heap, starting from beginning"
    collected,      \* concatenation of the results of the current pagination
    prev,           \* arguments and result of the call before the last one
    phase,          \* "idle", "paging", "done", "adhoc", "followup"
    found_page,     \* result of the last _find_page_for_address call
    find_arg,       \* its argument
    fibers,         \* target memory: the saved context of each fiber pointer
    active_fiber,   \* RubyFiberUnwinder.active_fiber
    unwound_first_frame,    \* RubyFiberUnwinder.unwound_first_frame
    last_op,        \* the last operation on the unwinder and its argument
    last_result,    \* what the last __call__ returned
    before,         \* active_fiber and unwound_first_frame before the last operation
    produced,       \* frames produced since the last activate_fiber or deactivate
    header,         \* target memory: the object header at the address a word names
    vop,            \* the last operation of the value module and the word it was given
    vret,           \* what that operation returned
    type_fields,    \* target memory: what reading RTypedData.type of each slot gives
    warning_shown,  \* RubyHeap._incomplete_type_warning_shown is set
    typed_ret,      \* the last find_typed_data call: its number, arguments and outcome
    frames,         \* target memory: the control frames from ec.cfp to the stack end
    backtrace,      \* what print_backtrace printed and the exception that left it
    ec,             \* target memory: cfp, vm_stack and vm_stack_size of the context
    ar_table,       \* target memory: the flags word and the slots of an AR table
    hash_ret,       \* what RHashARTable.pairs() yielded
    string_type,    \* target build: the fields struct RString has
    string_flags,   \* target memory: the flags word of a string object
    layout,         \* the class the RString factory returned for it
    heap_variable,  \* the $heap convenience variable rb-heap-scan saves
    unreadable,     \* target memory: the pages and slots that cannot be read
    backend,        \* the debugger backend in use: "gdb" or "lldb"
    scan_error,     \* an exception left the last scan call
    current_fiber,  \* _current_fiber: the fiber VALUE rb-fiber-switch selected
    fiber_cache,    \* _fiber_cache: the fiber VALUEs rb-fiber-scan-heap found
    saved_ec,       \* target memory: the errinfo word of each fiber's saved_ec
    convenience,    \* the $fiber_ptr and $errinfo convenience variables
    cached_frames,  \* the debugger holds frames it unwound earlier
    CACHE,          \* constants._CACHE: the names it holds
    TYPE_CACHE,     \* constants._TYPE_CACHE: the type names it holds
    command,        \* the last command or lookup, its argument and outcome
    containers,     \* target memory: the elements of each container object
    rendering       \* what print_recursive printed: the visits in order

heapVars == <<pages, bulk_ok, call, objects, next_address, warned, collected, prev,
              phase, found_page, find_arg, heap_variable, unreadable, backend,
              scan_error>>

unwVars == <<fibers, active_fiber, unwound_first_frame, last_op, last_result, before,
             produced>>

valVars == <<header, vop, vret>>

\* The variables of the other components, left alone by scanner and unwinder.
typedVars == <<type_fields, warning_shown, typed_ret>>

stackVars == <<frames, backtrace, ec>>

hashVars == <<ar_table, hash_ret>>

stringVars == <<string_type, string_flags, layout>>

switchVars == <<current_fiber, fiber_cache, saved_ec, convenience, cached_frames,
                CACHE, TYPE_CACHE, command>>

printVars == <<containers, rendering>>

lateVars == <<switchVars, printVars>>

restVars == <<valVars, typedVars, stackVars, hashVars, stringVars, lateVars>>

vars == <<heapVars, unwVars, restVars>>

\* Python's None for an optional integer.
None == 0 - 1

(***************************************************************************)
(* Bounds of the model.                                                    *)
(***************************************************************************)
MaxSlots == 2
MaxLimit == 2

\* heap.py: RBASIC_FLAGS_TYPE_MASK = 0x1f
RBASIC_FLAGS_TYPE_MASK == 31

\* flags & RBASIC_FLAGS_TYPE_MASK
TypeTag(flags) == flags % (RBASIC_FLAGS_TYPE_MASK + 1)

\* Header flag words found in slots: free, T_STRING with a high flag bit set, T_ARRAY.
FlagValues == {0, 32 + 5, 7}
\* type_flag arguments: none, or T_STRING.
TypeFlags == {None, 5}
\* limit arguments: none, 0, 1 .. MaxLimit.
Limits == {None} \cup (0 .. MaxLimit)
\* slot_size of a page, in words.
SlotSizes == {2}
\* heap_pages.allocated_pages of the snapshots considered.
PageCounts == {1, 2}
\* Address of the first page.
HeapBases == {1}

(***************************************************************************)
(* The heap snapshot.  A page is a record start, total_slots, slot_size    *)
(* and the flags word of each of its slots (slot j at flags[j + 1]).       *)
(* Pages are indexed 0 .. allocated_pages - 1 and lie back to back, so     *)
(* that page k ends exactly where page k + 1 starts.  A page with          *)
(* total_slots = 0 is a page with invalid dimensions.                      *)
(***************************************************************************)
allocated_pages == Cardinality(DOMAIN pages)

PageShapes(size) ==
    UNION {{[total_slots |-> t, slot_size |-> size, flags |-> f] :
                f \in [1 .. t -> FlagValues]} : t \in 0 .. MaxSlots}

RECURSIVE LayOut(_, _)
\* The page table made of the shapes sh (a sequence), the first page at base.
LayOut(sh, base) ==
    IF sh = <<>> THEN <<>>
    ELSE <<[start |-> base, total_slots |-> Head(sh).total_slots,
            slot_size |-> Head(sh).slot_size, flags |-> Head(sh).flags]>>
         \o LayOut(Tail(sh), base + Head(sh).total_slots * Head(sh).slot_size)

ZeroBased(seq) == [i \in 0 .. Len(seq) - 1 |-> seq[i + 1]]

Heaps ==
    UNION {UNION {{ZeroBased(LayOut(sh, base)) :
                      sh \in [1 .. n -> PageShapes(size)]} :
                  n \in PageCounts} :
           size \in SlotSizes, base \in HeapBases}

PageEnd(p) == p.start + p.total_slots * p.slot_size
InPage(p, a) == p.start <= a /\ a < PageEnd(p)

\* One past the last address of the heap.
HeapEnd == PageEnd(pages[allocated_pages - 1])
\* from_address arguments: none, or an address in a page, below the heap or
\* beyond it.
Addresses == {None} \cup (0 .. HeapEnd)

\* The word of target memory at address a.
Memory(a) ==
    IF \E i \in DOMAIN pages : InPage(pages[i], a)
    THEN LET p == pages[CHOOSE i \in DOMAIN pages : InPage(pages[i], a)]
             off == a - p.start
         IN  IF off % p.slot_size = 0 THEN p.flags[(off \div p.slot_size) + 1]
             ELSE 1      \* a word that is not a flags word (class pointer, payload)
    ELSE 0

\* debugger.read_memory(address, size): the words address .. address + size - 1.
read_memory(address, size) == [k \in 1 .. size |-> Memory(address + k - 1)]

\* RubyHeap._flags_offset and RubyHeap._value_size, in words.
flags_offset == 0
value_size == 1

\* RubyHeap._read_flags_fast(obj_address)
read_flags_fast(obj_address) == read_memory(obj_address + flags_offset, value_size)[1]

(***************************************************************************)
(* RubyHeap._find_page_for_address: linear search, first page whose        *)
(* range [start, start + total_slots * slot_size) holds the address.       *)
(***************************************************************************)
\* A TypeError leaving the search or the iteration, and the item standing
\* for it in the sequence of yielded items.
TypeErrorRaised == 0 - 3
TypeErrorItem == [addr |-> TypeErrorRaised, flags |-> TypeErrorRaised]

\* What a failed read of a page descriptor or of a slot's flags does to the
\* iteration.  With gdb the read raises debugger.MemoryError, which the
\* loops catch: nothing is yielded.  With lldb Value.__getitem__ returns
\* None for the failed field and int(None) raises TypeError, which no
\* handler of the loops catches.
FailedRead == IF backend = "lldb" THEN <<TypeErrorItem>> ELSE <<>>

RECURSIVE FindFromInclusive(_, _)
\* Faulty variant: the end of the page's range taken as part of the page
FindFromInclusive(i, address) ==
    IF i >= allocated_pages THEN None
    ELSE LET page == pages[i]
             page_end == page.start + (page.total_slots * page.slot_size)
         IN  IF page.start <= address /\ address <= page_end THEN i
             ELSE FindFromInclusive(i + 1, address)

RECURSIVE FindFrom(_, _)
FindFrom(i, address) ==
    IF i >= allocated_pages THEN None
    \* a page that cannot be read: passed over, or the TypeError of int(None)
    ELSE IF i \in unreadable.pages
    THEN IF backend = "lldb" THEN TypeErrorRaised ELSE FindFrom(i + 1, address)
    ELSE LET page == pages[i]
             page_end == page.start + (page.total_slots * page.slot_size)
         IN  IF page.start <= address /\ address < page_end THEN i
             ELSE FindFrom(i + 1, address)

find_page_for_address(address) == FindFrom(0, address)

(***************************************************************************)
(* RubyHeap._iterate_heap_from_page.  An item is a record addr, flags:     *)
(* the yielded (obj, flags, obj_address), obj being the address as VALUE.  *)
(***************************************************************************)
\* The flags of slot j of page i: from the bulk-read page when the bulk read
\* succeeded, by a read of the slot otherwise.
SlotFlags(i, j) ==
    LET page == pages[i]
        byte_offset == j * page.slot_size
        obj_address == page.start + byte_offset
    IN  IF i \in bulk_ok
        THEN LET flags_data == read_memory(page.start, page.total_slots * page.slot_size)
             IN  flags_data[byte_offset + flags_offset + 1]
        ELSE read_flags_fast(obj_address)

\* Faulty variant: the free-slot test left out
SlotItemYieldFree(i, j) ==
    <<[addr |-> pages[i].start + j * pages[i].slot_size, flags |-> SlotFlags(i, j)]>>

\* What the slot loop does with slot j: free slots are skipped.
SlotItem(i, j) ==
    LET flags == SlotFlags(i, j)
    IN  IF pages[i].start + j * pages[i].slot_size \in unreadable.slots
        THEN FailedRead
        ELSE IF flags = 0 THEN <<>>
        ELSE <<[addr |-> pages[i].start + j * pages[i].slot_size, flags |-> flags]>>

RECURSIVE SlotLoop(_, _)
\* for j in range(start_slot, total_slots)
SlotLoop(i, j) ==
    IF j >= pages[i].total_slots THEN <<>>
    ELSE SlotItem(i, j) \o SlotLoop(i, j + 1)

\* Faulty variant: the byte offset taken for the slot index
StartSlotNoDiv(i, start_page, skip_until_address) ==
    IF i = start_page /\ skip_until_address # None
    THEN LET offset_from_page_start == skip_until_address - pages[i].start
         IN  IF offset_from_page_start < 0 THEN 0 ELSE offset_from_page_start
    ELSE 0

\* Faulty variant: the scan resumed after the slot of the address, not at it
StartSlotAfter(i, start_page, skip_until_address) ==
    IF i = start_page /\ skip_until_address # None
    THEN LET offset_from_page_start == skip_until_address - pages[i].start
             start_slot == offset_from_page_start \div pages[i].slot_size
         IN  IF start_slot < 0 THEN 0 ELSE start_slot + 1
    ELSE 0

\* The slot the first page is entered at.
StartSlot(i, start_page, skip_until_address) ==
    IF i = start_page /\ skip_until_address # None
    THEN LET offset_from_page_start == skip_until_address - pages[i].start
             start_slot == offset_from_page_start \div pages[i].slot_size
         IN  IF start_slot < 0 THEN 0 ELSE start_slot
    ELSE 0

\* One round of "for i in range(start_page, allocated_pages)".
PageItems(i, start_page, skip_until_address) ==
    IF i \in unreadable.pages THEN FailedRead
    ELSE IF pages[i].total_slots <= 0 \/ pages[i].slot_size <= 0 THEN <<>>
    ELSE LET start_slot == StartSlot(i, start_page, skip_until_address)
         IN  IF start_slot >= pages[i].total_slots THEN <<>>
             ELSE SlotLoop(i, start_slot)

RECURSIVE PageLoop(_, _, _)
PageLoop(i, start_page, skip_until_address) ==
    IF i >= allocated_pages THEN <<>>
    ELSE PageItems(i, start_page, skip_until_address)
         \o PageLoop(i + 1, start_page, skip_until_address)

iterate_heap_from_page(start_page, skip_until_address) ==
    PageLoop(start_page, start_page, skip_until_address)

(***************************************************************************)
(* RubyHeap.iterate_heap_from and iterate_heap.                            *)
(***************************************************************************)
\* Faulty variant: an address found in no page ends the iteration
StartOfNoRestart(from_address) ==
    IF from_address # None
    THEN LET start_page == find_page_for_address(from_address)
         IN  IF start_page = None
             THEN [start_page |-> allocated_pages, start_address |-> None,
                   warning |-> TRUE]
             ELSE [start_page |-> start_page, start_address |-> from_address,
                   warning |-> FALSE]
    ELSE [start_page |-> 0, start_address |-> None, warning |-> FALSE]

\* The start page and in-page start address chosen for from_address.
StartOf(from_address) ==
    IF from_address # None
    THEN LET start_page == find_page_for_address(from_address)
         IN  IF start_page = None
             THEN [start_page |-> 0, start_address |-> None, warning |-> TRUE]
             ELSE [start_page |-> start_page, start_address |-> from_address,
                   warning |-> FALSE]
    ELSE [start_page |-> 0, start_address |-> None, warning |-> FALSE]

iterate_heap_from(from_address) ==
    LET st == StartOf(from_address)
    IN  IF st.start_page = TypeErrorRaised THEN <<TypeErrorItem>>
        ELSE iterate_heap_from_page(st.start_page, st.start_address)

iterate_heap == iterate_heap_from(None)

(***************************************************************************)
(* RubyHeap.scan(type_flag, limit, from_address).                          *)
(***************************************************************************)
\* Python truth of the limit argument: None and 0 are false.
Truthy(limit) == limit # None /\ limit # 0

\* Faulty variant: the test of the type check inverted
TypeMatchesInverted(flags, type_flag) ==
    type_flag = None \/ (flags % (RBASIC_FLAGS_TYPE_MASK + 1)) # type_flag

\* The type check of the loop body.
TypeMatches(flags, type_flag) ==
    type_flag = None \/ (flags % (RBASIC_FLAGS_TYPE_MASK + 1)) = type_flag

\* Faulty variant: next_address left unset at the limit
AtLimitNoNext(objs, limit, item) ==
    [objects |-> objs, next_address |-> None, raised |-> FALSE]

\* The loop's exit at the limit: the object met is not collected, its
\* address is the next address.
AtLimit(objs, limit, item) ==
    [objects |-> objs, next_address |-> item.addr, raised |-> FALSE]

RECURSIVE ScanLoop(_, _, _, _)
\* The for loop over the items still to come, objs collected so far.
ScanLoop(items, objs, type_flag, limit) ==
    IF items = <<>> THEN [objects |-> objs, next_address |-> None, raised |-> FALSE]
    \* the exception leaves scan: nothing is returned
    ELSE IF Head(items) = TypeErrorItem
    THEN [objects |-> <<>>, next_address |-> None, raised |-> TRUE]
    ELSE IF ~TypeMatches(Head(items).flags, type_flag)
         THEN ScanLoop(Tail(items), objs, type_flag, limit)
         ELSE IF Truthy(limit) /\ Len(objs) >= limit
              THEN AtLimit(objs, limit, Head(items))
              ELSE ScanLoop(Tail(items), Append(objs, Head(items).addr),
                            type_flag, limit)

scan(type_flag, limit, from_address) ==
    ScanLoop(iterate_heap_from(from_address), <<>>, type_flag, limit)

(***************************************************************************)
(* The fiber unwinder (fiber.py, RubyFiberUnwinder).  Fiber memory is      *)
(* addressed in bytes.  A fiber pointer maps to its coroutine context:     *)
(* whether the struct and the saved block can be read, the saved           *)
(* stack_pointer, and the seven words saved at it (r15, r14, r13, r12,     *)
(* rbx, rbp, return address).                                              *)
(***************************************************************************)
\* fiber.py: rsp_value = int(stack_ptr) + 48 + 8
SavedRegistersSize == 48
WordSize == 8

\* Fiber pointers handed to activate_fiber; 0 is a NULL pointer.
FiberPointers == {0, 1, 2}
\* Saved stack pointers: NULL or the address of a saved block.
StackPointers == {0, 4096}
\* Return address words found in a saved block.
ReturnAddresses == {0, 7777}

\* The saved block with return address rip: r15, r14, r13, r12, rbx, rbp, rip.
SavedBlock(rip) == <<15, 14, 13, 12, 3, 5, rip>>

Contexts ==
    {[readable |-> r, stack_pointer |-> sp, block |-> SavedBlock(rip)] :
        r \in BOOLEAN, sp \in StackPointers, rip \in ReturnAddresses}

\* Fiber memories: a NULL pointer reads nothing.
FiberMemories ==
    {m \in [FiberPointers -> Contexts] : ~m[0].readable /\ m[0].stack_pointer = 0
                                          /\ m[0].block = SavedBlock(0)}

\* A target without fibers.
NoFibers == [f \in FiberPointers |->
                [readable |-> FALSE, stack_pointer |-> 0, block |-> SavedBlock(0)]]

\* __call__ returning None.
NoFrame == [rip |-> 0, rsp |-> 0]

\* uint64_ptr[k] for the block at stack_ptr of fiber f: the word at stack_ptr + 8 * k.
SavedWord(f, k) == fibers[f].block[k + 1]

\* Python truth of self.active_fiber: None and a NULL pointer are false.
IsActive(fiber) == fiber # None /\ fiber # 0

\* Faulty variant: the stack pointer left at the return address
UnwindInfoNoPop(f) ==
    LET stack_ptr == fibers[f].stack_pointer
    IN  [frame_id |-> <<stack_ptr + SavedRegistersSize,
                        SavedWord(f, SavedRegistersSize \div WordSize)>>,
         rip |-> SavedWord(f, SavedRegistersSize \div WordSize),
         rsp |-> stack_ptr + SavedRegistersSize,
         rbp |-> SavedWord(f, 5), rbx |-> SavedWord(f, 4),
         r12 |-> SavedWord(f, 3), r13 |-> SavedWord(f, 2),
         r14 |-> SavedWord(f, 1), r15 |-> SavedWord(f, 0)]

\* The unwind info built from the saved block: frame id (rsp, rip) and the
\* saved registers.
UnwindInfo(f) ==
    LET stack_ptr == fibers[f].stack_pointer
    IN  [frame_id |-> <<stack_ptr + SavedRegistersSize + WordSize,
                        SavedWord(f, SavedRegistersSize \div WordSize)>>,
         rip |-> SavedWord(f, SavedRegistersSize \div WordSize),
         rsp |-> stack_ptr + SavedRegistersSize + WordSize,
         rbp |-> SavedWord(f, 5), rbx |-> SavedWord(f, 4),
         r12 |-> SavedWord(f, 3), r13 |-> SavedWord(f, 2),
         r14 |-> SavedWord(f, 1), r15 |-> SavedWord(f, 0)]

\* Faulty variant: the first frame never marked as produced
UnwinderCallNoMark(fiber, unwound) ==
    IF ~IsActive(fiber) THEN [result |-> NoFrame, unwound |-> unwound]
    ELSE IF unwound THEN [result |-> NoFrame, unwound |-> unwound]
    ELSE IF ~fibers[fiber].readable THEN [result |-> NoFrame, unwound |-> unwound]
    ELSE IF fibers[fiber].stack_pointer = 0
         THEN [result |-> NoFrame, unwound |-> unwound]
    ELSE IF UnwindInfo(fiber).rsp = 0 \/ UnwindInfo(fiber).rip = 0
         THEN [result |-> NoFrame, unwound |-> unwound]
    ELSE [result |-> UnwindInfo(fiber), unwound |-> unwound]

\* Faulty variant: the first frame marked as produced before the context is read
UnwinderCallMarkFirst(fiber, unwound) ==
    IF ~IsActive(fiber) THEN [result |-> NoFrame, unwound |-> unwound]
    ELSE IF unwound THEN [result |-> NoFrame, unwound |-> unwound]
    ELSE IF ~fibers[fiber].readable THEN [result |-> NoFrame, unwound |-> TRUE]
    ELSE IF fibers[fiber].stack_pointer = 0
         THEN [result |-> NoFrame, unwound |-> TRUE]
    ELSE IF UnwindInfo(fiber).rsp = 0 \/ UnwindInfo(fiber).rip = 0
         THEN [result |-> NoFrame, unwound |-> TRUE]
    ELSE [result |-> UnwindInfo(fiber), unwound |-> TRUE]

\* RubyFiberUnwinder.__call__ with active_fiber = fiber and
\* unwound_first_frame = unwound: what it returns and the flag it leaves.
UnwinderCall(fiber, unwound) ==
    IF ~IsActive(fiber) THEN [result |-> NoFrame, unwound |-> unwound]
    ELSE IF unwound THEN [result |-> NoFrame, unwound |-> unwound]
    \* gdb.error / gdb.MemoryError reading the context or the saved block
    ELSE IF ~fibers[fiber].readable THEN [result |-> NoFrame, unwound |-> unwound]
    ELSE IF fibers[fiber].stack_pointer = 0
         THEN [result |-> NoFrame, unwound |-> unwound]
    ELSE IF UnwindInfo(fiber).rsp = 0 \/ UnwindInfo(fiber).rip = 0
         THEN [result |-> NoFrame, unwound |-> unwound]
    ELSE [result |-> UnwindInfo(fiber), unwound |-> TRUE]

\* RubyFiberUnwinder.__init__
UnwinderNew ==
    /\ active_fiber = None
    /\ unwound_first_frame = FALSE
    /\ last_op = [op |-> "init", arg |-> None]
    /\ last_result = NoFrame
    /\ before = [active_fiber |-> None, unwound_first_frame |-> FALSE]
    /\ produced = 0

Before == [active_fiber |-> active_fiber, unwound_first_frame |-> unwound_first_frame]

\* GDB asks the unwinder for a frame.
Unwind ==
    LET r == UnwinderCall(active_fiber, unwound_first_frame)
    IN  /\ last_result' = r.result
        /\ unwound_first_frame' = r.unwound
        /\ produced' = IF r.result # NoFrame THEN produced + 1 ELSE produced
        /\ last_op' = [op |-> "call", arg |-> None]
        /\ before' = Before
        /\ UNCHANGED <<active_fiber, fibers>>

\* Faulty variant: the flag kept across the activation of another fiber
FlagOnActivateKept(unwound) == unwound

\* the flag activate_fiber leaves
FlagOnActivate(unwound) == FALSE

\* RubyFiberUnwinder.activate_fiber(fiber)
ActivateFiber(fiber) ==
    /\ active_fiber' = fiber
    /\ unwound_first_frame' = FlagOnActivate(unwound_first_frame)
    /\ produced' = 0
    /\ last_op' = [op |-> "activate", arg |-> fiber]
    /\ before' = Before
    /\ UNCHANGED <<last_result, fibers>>

\* RubyFiberUnwinder.deactivate()
Deactivate ==
    /\ active_fiber' = None
    /\ unwound_first_frame' = FALSE
    /\ produced' = 0
    /\ last_op' = [op |-> "deactivate", arg |-> None]
    /\ before' = Before
    /\ UNCHANGED <<last_result, fibers>>

(***************************************************************************)
(* The components not in use by a specification stay as constructed.       *)
(***************************************************************************)
\* No object header readable, no operation of the value module called.
NoHeader == [readable |-> FALSE, flags |-> 0]
NoValueOp == [op |-> "none", word |-> None]
NoValueResult == [kind |-> "none", truth |-> FALSE, payload |-> None]

ValueIdle ==
    /\ header = NoHeader
    /\ vop = NoValueOp
    /\ vret = NoValueResult

\* find_typed_data not called on the instance.
NoTypedResult == [calls |-> 0, data_type |-> None, limit |-> None, objects |-> <<>>,
                  diagnostic |-> FALSE, stopped |-> None]

TypedIdle ==
    /\ type_fields = <<>>
    /\ warning_shown = FALSE
    /\ typed_ret = NoTypedResult

\* print_backtrace not called.
NoBacktrace == [called |-> FALSE, lines |-> <<>>, visited |-> <<>>, raised |-> ""]
NoContext == [cfp |-> 0, vm_stack |-> 0, vm_stack_size |-> 0]

StackIdle ==
    /\ frames = <<>>
    /\ backtrace = NoBacktrace
    /\ ec = NoContext

\* pairs() not called; no table in the target.
NoPairs == [called |-> FALSE, size |-> 0, pairs |-> <<>>]

HashIdle ==
    /\ ar_table = [flags |-> 0, pairs |-> <<>>]
    /\ hash_ret = NoPairs

\* The RString factory not called.
NoLayout == [called |-> FALSE, class |-> "", embedded |-> FALSE]

StringIdle ==
    /\ string_type = [len |-> FALSE, embed |-> FALSE, embed_len |-> FALSE]
    /\ string_flags = 0
    /\ layout = NoLayout

\* No fiber selected, nothing cached, no command given.
NoConvenience == [fiber_ptr |-> None, errinfo |-> None]
NoCommand == [name |-> "none", arg |-> [kind |-> "none", value |-> None],
              outcome |-> "none",
              current_fiber |-> None, active_fiber |-> None]

SwitchIdle ==
    /\ current_fiber = None
    /\ fiber_cache = <<>>
    /\ saved_ec = <<>>
    /\ convenience = NoConvenience
    /\ cached_frames = FALSE
    /\ CACHE = {}
    /\ TYPE_CACHE = {}
    /\ command = NoCommand

\* print_recursive not called; no container in the target.
NoRendering == [called |-> FALSE, value |-> None, max_depth |-> None, lines |-> <<>>]

PrintIdle ==
    /\ containers = <<>>
    /\ rendering = NoRendering

LateIdle == SwitchIdle /\ PrintIdle

RestIdle == ValueIdle /\ TypedIdle /\ StackIdle /\ HashIdle /\ StringIdle /\ LateIdle

(***************************************************************************)
(* The scanner as a state machine: calls of scan on one heap snapshot.     *)
(***************************************************************************)
NoCall == [type_flag |-> None, limit |-> None, from_address |-> None]
\* Every page descriptor and every slot of the snapshot can be read.
AllReadable == [pages |-> {}, slots |-> {}]
NoPrev == [call |-> NoCall, objects |-> <<>>, next_address |-> None]

\* RubyHeap over one of the snapshots in heaps, no scan called yet.
HeapNew(heaps) ==
    /\ pages \in heaps
    /\ bulk_ok \in {{}, DOMAIN pages}
    /\ call = NoCall
    /\ objects = <<>>
    /\ next_address = None
    /\ warned = FALSE
    /\ collected = <<>>
    /\ prev = NoPrev
    /\ phase = "idle"
    /\ found_page = None
    /\ find_arg = None
    /\ heap_variable = None
    /\ unreadable = AllReadable
    /\ backend = "gdb"
    /\ scan_error = FALSE

Init ==
    /\ HeapNew(Heaps)
    /\ fibers = NoFibers
    /\ UnwinderNew
    /\ RestIdle

\* One call scan(type_flag, limit, from_address) and what it returns.
Call(type_flag, limit, from_address) ==
    LET r == scan(type_flag, limit, from_address)
    IN  /\ call' = [type_flag |-> type_flag, limit |-> limit,
                    from_address |-> from_address]
        /\ objects' = r.objects
        /\ next_address' = r.next_address
        /\ warned' = StartOf(from_address).warning
        /\ find_arg' = from_address
        /\ found_page' = IF from_address = None THEN None
                         ELSE find_page_for_address(from_address)
        \* invoke: nothing saved when no object was found, $heap unset at the end
        /\ heap_variable' = IF r.objects = <<>> THEN heap_variable ELSE r.next_address
        /\ scan_error' = r.raised
        /\ UNCHANGED <<pages, bulk_ok, unreadable, backend>>
        /\ UNCHANGED <<unwVars, restVars>>

\* The first call of a pagination: scan(type_flag, limit=limit).
ScanStart(type_flag, limit) ==
    /\ phase = "idle"
    /\ Call(type_flag, limit, None)
    /\ collected' = objects'
    /\ prev' = NoPrev
    /\ phase' = IF next_address' = None THEN "done" ELSE "paging"

\* The next call of the pagination: the same arguments, from next_address.
ScanResume ==
    /\ phase = "paging"
    /\ next_address # None
    /\ Call(call.type_flag, call.limit, next_address)
    /\ collected' = collected \o objects'
    /\ prev' = NoPrev
    /\ phase' = IF next_address' = None THEN "done" ELSE "paging"

\* A call with an arbitrary resume address.
ScanFrom(type_flag, limit, from_address) ==
    /\ phase = "idle"
    /\ Call(type_flag, limit, from_address)
    /\ collected' = objects'
    /\ prev' = NoPrev
    /\ phase' = "adhoc"

\* A call from the returned next_address with other arguments.
FollowUp(type_flag, limit) ==
    /\ phase = "paging"
    /\ next_address # None
    /\ prev' = [call |-> call, objects |-> objects, next_address |-> next_address]
    /\ Call(type_flag, limit, next_address)
    /\ collected' = objects'
    /\ phase' = "followup"

\* Paginations: a first call, then calls from the returned next_address.
Next ==
    \/ \E t \in TypeFlags, l \in Limits : ScanStart(t, l)
    \/ ScanResume

Spec == Init /\ [][Next]_vars

\* Single calls from any resume address.
NextFrom ==
    \E t \in TypeFlags, l \in Limits, a \in Addresses : ScanFrom(t, l, a)

SpecFrom == Init /\ [][NextFrom]_vars

(***************************************************************************)
(* Scans of a snapshot part of which cannot be read: at most one page      *)
(* descriptor and at most one slot, under either debugger backend.         *)
(***************************************************************************)
\* The addresses of the slots of the page table.
SlotAddresses ==
    UNION {{pages[i].start + j * pages[i].slot_size : j \in 0 .. pages[i].total_slots - 1} :
              i \in DOMAIN pages}

Faults ==
    {[pages |-> P, slots |-> S] :
        P \in {{}} \cup {{i} : i \in DOMAIN pages},
        S \in {{}} \cup {{a} : a \in SlotAddresses}}

InitFaulty ==
    /\ pages \in Heaps
    /\ unreadable \in Faults
    /\ backend \in {"gdb", "lldb"}
    \* the bulk read of a page fails when one of its slots cannot be read
    /\ bulk_ok = {i \in DOMAIN pages :
                    \A a \in unreadable.slots : ~InPage(pages[i], a)}
    /\ call = NoCall
    /\ objects = <<>>
    /\ next_address = None
    /\ warned = FALSE
    /\ collected = <<>>
    /\ prev = NoPrev
    /\ phase = "idle"
    /\ found_page = None
    /\ find_arg = None
    /\ heap_variable = None
    /\ scan_error = FALSE
    /\ fibers = NoFibers
    /\ UnwinderNew
    /\ RestIdle

\* Scans from the start of the heap and from the start of its last page.
NextFaulty ==
    \E t \in TypeFlags, l \in Limits, a \in {None, pages[allocated_pages - 1].start} :
        ScanFrom(t, l, a)

SpecFaulty == InitFaulty /\ [][NextFaulty]_vars

(***************************************************************************)
(* The scenario heap: one page of four slots with flags 0x05, 0x05, 0x00,  *)
(* 0x07.                                                                   *)
(***************************************************************************)
ScenarioHeap ==
    [i \in {0} |-> [start |-> 1, total_slots |-> 4, slot_size |-> 2,
                    flags |-> <<5, 5, 0, 7>>]]

InitScenario ==
    /\ HeapNew({ScenarioHeap})
    /\ fibers = NoFibers
    /\ UnwinderNew
    /\ RestIdle

\* type_flag arguments on the scenario heap: none, T_STRING, T_ARRAY.
ScenarioTypeFlags == {None, 5, 7}

NextScenario ==
    \/ \E t \in ScenarioTypeFlags, l \in Limits : ScanStart(t, l)
    \/ ScanResume
    \/ \E t \in ScenarioTypeFlags, l \in Limits : FollowUp(t, l)

SpecScenario == InitScenario /\ [][NextScenario]_vars

(***************************************************************************)
(* The unwinder as a state machine: GDB invokes it between activations.    *)
(***************************************************************************)
\* A target whose heap is one page without slots.
EmptyHeap ==
    [i \in {0} |-> [start |-> 1, total_slots |-> 0, slot_size |-> 2, flags |-> <<>>]]

InitUnwinder ==
    /\ HeapNew({EmptyHeap})
    /\ fibers \in FiberMemories
    /\ UnwinderNew
    /\ RestIdle

NextUnwinder ==
    \/ /\ Unwind
       /\ UNCHANGED <<heapVars, restVars>>
    \/ /\ \E f \in FiberPointers : ActivateFiber(f)
       /\ UNCHANGED <<heapVars, restVars>>
    \/ /\ Deactivate
       /\ UNCHANGED <<heapVars, restVars>>

SpecUnwinder == InitUnwinder /\ [][NextUnwinder]_vars

(***************************************************************************)
(* The VALUE classifier (data/toolbox/value.py).  A VALUE is a machine     *)
(* word; the classifier reads its low eight bits only, so the words        *)
(* considered are all words of WordBits bits.  Python integers do not      *)
(* wrap: a shift or a mask gives the mathematical result.                  *)
(***************************************************************************)
WordBits == 9

Words == 0 .. (2 ^ WordBits - 1)

\* a & b
RECURSIVE BitAnd(_, _)
BitAnd(a, b) ==
    IF a = 0 \/ b = 0 THEN 0
    ELSE (a % 2) * (b % 2) + 2 * BitAnd(a \div 2, b \div 2)

\* a | b
RECURSIVE BitOr(_, _)
BitOr(a, b) ==
    IF a = 0 THEN b
    ELSE IF b = 0 THEN a
    ELSE (IF a % 2 = 1 \/ b % 2 = 1 THEN 1 ELSE 0) + 2 * BitOr(a \div 2, b \div 2)

\* a >> n and a << n
ShiftRight(a, n) == a \div (2 ^ n)
ShiftLeft(a, n) == a * (2 ^ n)

\* ruby_special_consts, with the defaults the code falls back to.
RUBY_FLONUM_MASK == 3
RUBY_FLONUM_FLAG == 2
RUBY_SPECIAL_SHIFT == 8
RUBY_SYMBOL_FLAG == 12

\* ruby_value_type (constants._TYPE_DEFAULTS).
RUBY_T_OBJECT == 1
RUBY_T_FLOAT == 4
RUBY_T_STRING == 5
RUBY_T_ARRAY == 7
RUBY_T_HASH == 8
RUBY_T_STRUCT == 9
RUBY_T_BIGNUM == 10
RUBY_T_DATA == 12
RUBY_T_SYMBOL == 20
RUBY_T_MASK == 31

\* Flags words an object header holds: each decoded tag, tags without a
\* decoder (T_NONE, T_OBJECT, T_DATA, T_ZOMBIE) and a T_STRING with a higher
\* flag bit set.
HeaderFlags == {0, RUBY_T_OBJECT, RUBY_T_FLOAT, RUBY_T_STRING, RUBY_T_ARRAY,
                RUBY_T_HASH, RUBY_T_STRUCT, RUBY_T_BIGNUM, RUBY_T_DATA,
                RUBY_T_SYMBOL, 29, 32 + RUBY_T_STRING}

\* What the target holds at the address a word names: an unreadable address,
\* or a header with one of the flags words.
Headers == {NoHeader} \cup {[readable |-> TRUE, flags |-> f] : f \in HeaderFlags}

\* What an operation returns: a wrapper class (kind), a boolean (truth) or a
\* number (payload); kind "raise" is an exception leaving the operation.
Result(kind, truth, payload) == [kind |-> kind, truth |-> truth, payload |-> payload]
Wrapper(kind) == Result(kind, FALSE, None)
Raised == Result("raise", FALSE, None)
Bool(b) == Result("bool", b, None)

\* rfloat.is_flonum
is_flonum(val_int) == BitAnd(val_int, RUBY_FLONUM_MASK) = RUBY_FLONUM_FLAG

\* rsymbol.is_symbol: mask = ~(~0 << RUBY_SPECIAL_SHIFT)
is_symbol(val_int) ==
    BitAnd(val_int, ShiftLeft(1, RUBY_SPECIAL_SHIFT) - 1) = RUBY_SYMBOL_FLAG

\* value.is_nil
is_nil(val_int) == val_int = 4 \/ val_int = 8

\* value.is_immediate
is_immediate(val_int) == val_int = 0 \/ BitAnd(val_int, 3) # 0

\* value.is_object
is_object(val_int) == ~is_immediate(val_int)

\* rbasic.type_of on a readable header: flags & RUBY_T_MASK
type_of(flags) == BitAnd(flags, RUBY_T_MASK)

\* rexception.is_exception: a failed read of the header gives False.
is_exception(val_int) ==
    IF ~is_object(val_int) THEN FALSE
    ELSE IF ~header.readable THEN FALSE
    ELSE type_of(header.flags) \in {RUBY_T_OBJECT, RUBY_T_DATA}

\* RubyContext.has_exception with the word errinfo in the pending-error slot
\* (None: the slot could not be read).
has_exception(errinfo) ==
    IF errinfo = None THEN FALSE ELSE is_exception(errinfo)

\* Faulty variant: the fixnum shifted by two bits
FixnumValueShiftTwo(val_int) == ShiftRight(val_int, 2)

\* RImmediate.__str__ for a fixnum: val_int >> 1
FixnumValue(val_int) == ShiftRight(val_int, 1)

\* RImmediate(value), with the number __str__ shows for a fixnum.
RImmediate(val_int) ==
    IF val_int = 0 \/ val_int = 4 \/ val_int = 8 \/ val_int = 20
    THEN Wrapper("RImmediate")
    ELSE IF BitAnd(val_int, 1) # 0
    THEN Result("RImmediate", FALSE, FixnumValue(val_int))
    ELSE Wrapper("RImmediate")

\* rbasic.RBasic(value): __init__ reads the flags of the header.
RBasic(val_int) == IF header.readable THEN Wrapper("RBasic") ELSE Raised

\* The decoder interpret selects for a readable header.
Decoder(val_int, type_flag) ==
    IF type_flag = RUBY_T_STRING THEN Wrapper("RString")
    ELSE IF type_flag = RUBY_T_ARRAY THEN Wrapper("RArray")
    ELSE IF type_flag = RUBY_T_HASH THEN Wrapper("RHash")
    ELSE IF type_flag = RUBY_T_STRUCT THEN Wrapper("RStruct")
    ELSE IF type_flag = RUBY_T_SYMBOL THEN Wrapper("RSymbolObject")
    ELSE IF type_flag = RUBY_T_FLOAT THEN Wrapper("RFloatObject")
    ELSE IF type_flag = RUBY_T_BIGNUM THEN Wrapper("RBignumObject")
    ELSE RBasic(val_int)

\* value.interpret
interpret(val_int) ==
    IF is_flonum(val_int) THEN Wrapper("RFloatImmediate")
    ELSE IF is_symbol(val_int) THEN Wrapper("RSymbolImmediate")
    ELSE IF val_int = 0 \/ val_int = 4 \/ val_int = 8 \/ val_int = 20
            \/ BitAnd(val_int, 1) # 0
    THEN RImmediate(val_int)
    ELSE IF header.readable THEN Decoder(val_int, type_of(header.flags))
    \* except Exception: return rbasic.RBasic(value)
    ELSE RBasic(val_int)

\* The value module as a state machine: one of its functions applied to a
\* word of the target.
Interpret(w) ==
    /\ vop = NoValueOp
    /\ vop' = [op |-> "interpret", word |-> w]
    /\ vret' = interpret(w)
    /\ UNCHANGED header

IsImmediate(w) ==
    /\ vop = NoValueOp
    /\ vop' = [op |-> "is_immediate", word |-> w]
    /\ vret' = Bool(is_immediate(w))
    /\ UNCHANGED header

IsObject(w) ==
    /\ vop = NoValueOp
    /\ vop' = [op |-> "is_object", word |-> w]
    /\ vret' = Bool(is_object(w))
    /\ UNCHANGED header

HasException(errinfo) ==
    /\ vop = NoValueOp
    /\ vop' = [op |-> "has_exception", word |-> errinfo]
    /\ vret' = Bool(has_exception(errinfo))
    /\ UNCHANGED header

InitValue ==
    /\ HeapNew({EmptyHeap})
    /\ fibers = NoFibers
    /\ UnwinderNew
    /\ header \in Headers
    /\ vop = NoValueOp
    /\ vret = NoValueResult
    /\ TypedIdle
    /\ StackIdle
    /\ HashIdle
    /\ StringIdle
    /\ LateIdle

NextValue ==
    \/ /\ \E w \in Words : Interpret(w)
       /\ UNCHANGED <<heapVars, unwVars, typedVars, stackVars, hashVars, stringVars,
                    lateVars>>
    \/ /\ \E w \in Words : IsImmediate(w)
       /\ UNCHANGED <<heapVars, unwVars, typedVars, stackVars, hashVars, stringVars,
                    lateVars>>
    \/ /\ \E w \in Words : IsObject(w)
       /\ UNCHANGED <<heapVars, unwVars, typedVars, stackVars, hashVars, stringVars,
                    lateVars>>
    \/ /\ \E w \in Words \cup {None} : HasException(w)
       /\ UNCHANGED <<heapVars, unwVars, typedVars, stackVars, hashVars, stringVars,
                    lateVars>>

SpecValue == InitValue /\ [][NextValue]_vars

(***************************************************************************)
(* RubyHeap.find_typed_data (heap.py): the scan for T_DATA objects of one  *)
(* rb_data_type_struct, called any number of times on one RubyHeap         *)
(* instance, as rb-fiber-scan-heap does (fiber.py: self.heap is created    *)
(* once, in __init__).                                                     *)
(***************************************************************************)
\* Calls of find_typed_data on one instance.
MaxCalls == 3

\* rb_data_type_struct pointers: the one searched for and another one.
DataTypes == {1, 2}

\* typed_data['type'] then type_field == data_type raising debugger.Error.
TypeFieldRaises == 0 - 2

\* What reading the type field of an object gives: None (the field access
\* failed), an error at the comparison, or a type pointer.
TypeFieldValues == {None, TypeFieldRaises} \cup DataTypes

\* Flags words of the slots: free, T_STRING, T_DATA with a higher bit set.
TypedFlagValues == {0, RUBY_T_STRING, 32 + RUBY_T_DATA}

\* Snapshots of one page of up to MaxSlots slots.
TypedHeaps ==
    UNION {{ZeroBased(LayOut(<<[total_slots |-> t, slot_size |-> 2, flags |-> f]>>, 1)) :
                f \in [1 .. t -> TypedFlagValues]} : t \in 1 .. MaxSlots}

\* typed_data['type'] for the object at address.
TypeField(address) ==
    type_fields[((address - pages[0].start) \div pages[0].slot_size) + 1]

TypedResult(objs, shown, diagnostic, stopped) ==
    [objects |-> objs, shown |-> shown, diagnostic |-> diagnostic, stopped |-> stopped]

RECURSIVE TypedLoop(_, _, _, _, _)
\* The for loop of find_typed_data over the items still to come: objs found
\* so far, shown the instance's _incomplete_type_warning_shown.
TypedLoop(items, objs, data_type, limit, shown) ==
    IF items = <<>> THEN TypedResult(objs, shown, FALSE, None)
    ELSE IF Truthy(limit) /\ Len(objs) >= limit
    THEN TypedResult(objs, shown, FALSE, None)
    ELSE IF TypeTag(Head(items).flags) # RUBY_T_DATA
    THEN TypedLoop(Tail(items), objs, data_type, limit, shown)
    ELSE LET type_field == TypeField(Head(items).addr)
         IN  IF type_field = None
             \* the diagnostic is printed unless the attribute is set; break
             THEN TypedResult(objs, TRUE, ~shown, Head(items).addr)
             ELSE IF type_field = TypeFieldRaises
             THEN TypedLoop(Tail(items), objs, data_type, limit, shown)
             ELSE IF type_field = data_type
             THEN TypedLoop(Tail(items), Append(objs, Head(items).addr),
                            data_type, limit, shown)
             ELSE TypedLoop(Tail(items), objs, data_type, limit, shown)

\* RubyHeap.find_typed_data(data_type, limit)
find_typed_data(data_type, limit) ==
    TypedLoop(iterate_heap, <<>>, data_type, limit, warning_shown)

\* One call of find_typed_data on the instance.
FindTypedData(data_type, limit) ==
    LET r == find_typed_data(data_type, limit)
    IN  /\ typed_ret.calls < MaxCalls
        /\ warning_shown' = r.shown
        /\ typed_ret' = [calls |-> typed_ret.calls + 1, data_type |-> data_type,
                         limit |-> limit, objects |-> r.objects,
                         diagnostic |-> r.diagnostic, stopped |-> r.stopped]
        /\ UNCHANGED <<heapVars, unwVars, valVars, type_fields, stackVars, hashVars,
                       stringVars, lateVars>>

InitTyped ==
    /\ HeapNew(TypedHeaps)
    /\ fibers = NoFibers
    /\ UnwinderNew
    /\ ValueIdle
    /\ type_fields \in [1 .. pages[0].total_slots -> TypeFieldValues]
    /\ warning_shown = FALSE
    /\ typed_ret = NoTypedResult
    /\ StackIdle
    /\ HashIdle
    /\ StringIdle
    /\ LateIdle

NextTyped == \E d \in DataTypes, l \in Limits : FindTypedData(d, l)

SpecTyped == InitTyped /\ [][NextTyped]_vars

(***************************************************************************)
(* RubyStackPrinter.print_backtrace (stack.py): the walk over the control  *)
(* frames from ec.cfp up to the end of the VM stack.  The execution        *)
(* context itself is readable and holds no pending exception.  A frame of  *)
(* the target is what reading its fields gives: None when the debugger     *)
(* layer reports the field as absent (Value.__getitem__), Unreadable when  *)
(* int() of the field raises debugger.Error, otherwise 0 or a pointer.     *)
(***************************************************************************)
\* Control frames between ec.cfp and the end of the VM stack.
MaxFrames == 2

\* A field whose int() raises debugger.Error (gdb.MemoryError).
Unreadable == 0 - 2

\* What the iseq of a Ruby frame leads to: an ifunc, a body with its
\* location, no body, or an error while the location is read.
FrameInfos == {"ifunc", "ruby", "no_body", "error"}

ControlFrames ==
    {[iseq |-> i, pc |-> 0, info |-> "ruby"] : i \in {None, Unreadable, 0}}
    \cup {[iseq |-> 1, pc |-> p, info |-> "ruby"] : p \in {None, Unreadable, 0}}
    \cup {[iseq |-> 1, pc |-> 1, info |-> n] : n \in FrameInfos}

FrameStacks == UNION {[1 .. n -> ControlFrames] : n \in 0 .. MaxFrames}

\* What _print_frame does: the line it prints ("" for none) and the
\* exception that leaves it ("" for none).
FrameOutcome(line, raised) == [line |-> line, raised |-> raised]

\* int(x) for a field x.
IntRaises(x) ==
    IF x = None THEN "TypeError"
    ELSE IF x = Unreadable THEN "Error"
    ELSE ""

\* RubyStackPrinter._print_frame(cfp, depth)
print_frame(cfp) ==
    \* if iseq is None or int(iseq) == 0: the C function frame, whose own
    \* reads are inside try/except
    IF cfp.iseq = None THEN FrameOutcome("cfunc", "")
    ELSE IF IntRaises(cfp.iseq) # "" THEN FrameOutcome("", IntRaises(cfp.iseq))
    ELSE IF cfp.iseq = 0 THEN FrameOutcome("cfunc", "")
    \* pc = cfp['pc']; if int(pc) == 0
    ELSE IF IntRaises(cfp.pc) # "" THEN FrameOutcome("", IntRaises(cfp.pc))
    ELSE IF cfp.pc = 0 THEN FrameOutcome("unknown", "")
    ELSE IF cfp.info = "ifunc" THEN FrameOutcome("ifunc", "")
    ELSE IF cfp.info = "no_body" THEN FrameOutcome("unknown", "")
    \* except (debugger.Error, RuntimeError): the marker is printed, the
    \* function returns
    ELSE IF cfp.info = "error" THEN FrameOutcome("error reading frame info", "")
    ELSE FrameOutcome("ruby", "")

\* sizeof(rb_control_frame_t) in VALUE words: what cfp + 1 adds to the
\* address.  Addresses of the VM stack are counted in VALUE words.
ControlFrameSize == 2

\* Execution contexts: a VM stack of 8 words at 16, and a cfp from the
\* lowest frame the stack bound allows up to beyond the end of the stack.
ExecutionContexts ==
    {[cfp |-> c, vm_stack |-> 16, vm_stack_size |-> 8] :
        c \in (22 - MaxFrames * ControlFrameSize) .. 25}

\* Faulty variant: the end of the frames taken at the end of the stack
cfpend_at_stack_end(e) == e.vm_stack + e.vm_stack_size

\* cfpend = (vm_stack + vm_stack_size).cast(cfp_type) - 1
cfpend(e) == (e.vm_stack + e.vm_stack_size) - 1 * ControlFrameSize

\* The control frame memory holds at the address: frames[k] lies at
\* cfp + (k - 1) frames; beyond them lies the finished frame of the stack
\* bottom, a C frame.
FrameAt(address) ==
    LET k == (address - ec.cfp) \div ControlFrameSize + 1
    IN  IF k \in DOMAIN frames THEN frames[k]
        ELSE [iseq |-> 0, pc |-> 0, info |-> "ruby"]

BacktraceResult(lines, visited, raised) ==
    [called |-> TRUE, lines |-> lines, visited |-> visited, raised |-> raised]

\* if frame_num == 0: print("  (no frames)")
NoFramesLine(frame_num, lines) ==
    IF frame_num = 0 THEN Append(lines, "(no frames)") ELSE lines

RECURSIVE WalkFrames(_, _, _, _)
\* while current_cfp < cfpend, with the lines printed and the frames
\* handed to _print_frame so far.
WalkFrames(current_cfp, frame_num, lines, visited) ==
    IF ~(current_cfp < cfpend(ec))
    THEN BacktraceResult(NoFramesLine(frame_num, lines), visited, "")
    ELSE LET r == print_frame(FrameAt(current_cfp))
         IN  IF r.raised = ""
             THEN WalkFrames(current_cfp + 1 * ControlFrameSize, frame_num + 1,
                             Append(lines, r.line), Append(visited, current_cfp))
             \* except (debugger.Error, RuntimeError): the marker, then break
             ELSE IF r.raised = "Error"
             THEN BacktraceResult(
                      NoFramesLine(frame_num, Append(lines, "error reading frame")),
                      Append(visited, current_cfp), "")
             \* no handler of print_backtrace matches a TypeError
             ELSE BacktraceResult(lines, Append(visited, current_cfp), r.raised)

\* RubyStackPrinter.print_backtrace(ec)
print_backtrace == WalkFrames(ec.cfp, 0, <<>>, <<>>)

PrintBacktrace ==
    /\ ~backtrace.called
    /\ backtrace' = print_backtrace
    /\ UNCHANGED <<frames, ec, heapVars, unwVars, valVars, typedVars, hashVars,
                   stringVars, lateVars>>

InitStack ==
    /\ HeapNew({EmptyHeap})
    /\ fibers = NoFibers
    /\ UnwinderNew
    /\ ValueIdle
    /\ TypedIdle
    /\ frames \in FrameStacks
    /\ backtrace = NoBacktrace
    \* the frames are those between cfp and the end of the control frames
    /\ ec \in {e \in ExecutionContexts :
                 Len(frames) = IF e.cfp < cfpend(e)
                               THEN (cfpend(e) - e.cfp + ControlFrameSize - 1)
                                        \div ControlFrameSize
                               ELSE 0}
    /\ HashIdle
    /\ StringIdle
    /\ LateIdle

NextStack == PrintBacktrace

SpecStack == InitStack /\ [][NextStack]_vars

(***************************************************************************)
(* RHashARTable (rhash.py): a hash stored as an array of (key, val) slots. *)
(* The flags word of the object holds the size in bits 16..19 and the      *)
(* bound in bits 20..23; a deleted slot holds RUBY_Qundef as its key.      *)
(***************************************************************************)
\* Slots of the AR table in target memory.
MaxPairs == 3

\* The constants pairs() and __init__ read from the target.
RUBY_Qundef == 36
RHASH_AR_TABLE_SIZE_SHIFT == 16
RHASH_AR_TABLE_BOUND_SHIFT == 20
RHASH_AR_TABLE_SIZE_MASK == ShiftLeft(15, RHASH_AR_TABLE_SIZE_SHIFT)
RHASH_AR_TABLE_BOUND_MASK == ShiftLeft(15, RHASH_AR_TABLE_BOUND_SHIFT)

\* Keys found in slots: the undefined sentinel, the fixnums 0 and 1.
HashKeys == {RUBY_Qundef, 1, 3}

\* The slots of a table with the keys ks: the value of slot i is the fixnum i.
PairsOf(ks) == [i \in 1 .. Len(ks) |-> [key |-> ks[i], val |-> 2 * i + 1]]

\* The flags word of a T_HASH with the given size and bound fields.
HashFlags(size, bound) ==
    RUBY_T_HASH + ShiftLeft(size, RHASH_AR_TABLE_SIZE_SHIFT)
                + ShiftLeft(bound, RHASH_AR_TABLE_BOUND_SHIFT)

ARTables ==
    {[flags |-> HashFlags(size, bound), pairs |-> PairsOf(ks)] :
        size \in 0 .. MaxPairs, bound \in 0 .. MaxPairs,
        ks \in [1 .. MaxPairs -> HashKeys]}

\* RHashARTable.__init__: self.ar_size
ar_size(flags) ==
    ShiftRight(BitAnd(flags, RHASH_AR_TABLE_SIZE_MASK), RHASH_AR_TABLE_SIZE_SHIFT)

\* Faulty variant: the bound taken from the size field
ar_bound_from_size(flags) ==
    ShiftRight(BitAnd(flags, RHASH_AR_TABLE_SIZE_MASK), RHASH_AR_TABLE_SIZE_SHIFT)

\* RHashARTable.__init__: self.ar_bound
ar_bound(flags) ==
    ShiftRight(BitAnd(flags, RHASH_AR_TABLE_BOUND_MASK), RHASH_AR_TABLE_BOUND_SHIFT)

RECURSIVE PairsLoop(_, _, _)
\* for i in range(int(self.ar_bound)), from slot i on (slot i at pairs[i + 1]).
PairsLoop(table, i, bound) ==
    IF i >= bound THEN <<>>
    ELSE LET key == table.pairs[i + 1].key
         IN  (IF key # RUBY_Qundef THEN <<<<key, table.pairs[i + 1].val>>>> ELSE <<>>)
             \o PairsLoop(table, i + 1, bound)

\* RHashARTable.pairs(): the pairs it yields, in order.
pairs(table) == PairsLoop(table, 0, ar_bound(table.flags))

\* list(RHashARTable(value).pairs()) on the table of the target.
Pairs ==
    /\ ~hash_ret.called
    /\ hash_ret' = [called |-> TRUE, size |-> ar_size(ar_table.flags),
                    pairs |-> pairs(ar_table)]
    /\ UNCHANGED <<ar_table, heapVars, unwVars, valVars, typedVars, stackVars,
                   stringVars, lateVars>>

InitHash ==
    /\ HeapNew({EmptyHeap})
    /\ fibers = NoFibers
    /\ UnwinderNew
    /\ ValueIdle
    /\ TypedIdle
    /\ StackIdle
    /\ ar_table \in ARTables
    /\ hash_ret = NoPairs
    /\ StringIdle
    /\ LateIdle

NextHash == Pairs

SpecHash == InitHash /\ [][NextHash]_vars

(***************************************************************************)
(* The RString factory (rstring.py): the layout class chosen from the      *)
(* fields struct RString has in the target build.  A field access goes     *)
(* through Value.__getitem__, which gives None for a field the struct      *)
(* lacks; subscripting None raises TypeError.                              *)
(***************************************************************************)
\* constants._FLAG_DEFAULTS: RUBY_FL_USER1 = 1 << 13, ...
RUBY_FL_USER1 == ShiftLeft(1, 13)
RUBY_FL_USER2 == ShiftLeft(1, 14)
RUBY_FL_USER3 == ShiftLeft(1, 15)

\* struct RString of a build: has it a top-level len, an as.embed member,
\* and a len inside as.embed.
StringShapes ==
    {sh \in [len : BOOLEAN, embed : BOOLEAN, embed_len : BOOLEAN] :
        sh.embed_len => sh.embed}

\* Flags words of a T_STRING object.
StringFlags ==
    {RUBY_T_STRING + a * RUBY_FL_USER1 + b * RUBY_FL_USER2 + c * RUBY_FL_USER3 :
        a \in {0, 1}, b \in {0, 1}, c \in {0, 1}}

\* Value.__getitem__(key) on value, for a field that is present or not:
\* a Value (1), None, or TypeError when value itself is None.
GetItem(value, present) ==
    IF value = None THEN [raised |-> TRUE, value |-> None]
    ELSE IF present THEN [raised |-> FALSE, value |-> 1]
    ELSE [raised |-> FALSE, value |-> None]

\* rstring.RString(value): the class of the instance it returns.
RString(shape) ==
    LET top_len == GetItem(1, shape.len)
        embed == GetItem(1, shape.embed)
        embed_len == GetItem(embed.value, shape.embed_len)
    IN  IF ~top_len.raised
        THEN IF ~embed_len.raised THEN "RString33" ELSE "RString34"
        ELSE IF ~embed_len.raised THEN "RString32RVARGC"
        ELSE "RString32Legacy"

\* _is_embedded of the class, for the flags word of the object.
is_embedded(class, flags) ==
    IF class = "RString33" THEN BitAnd(flags, RUBY_FL_USER1) # 0
    ELSE BitAnd(flags, RUBY_FL_USER1) = 0

\* RString(value) for a string object of the target, then _is_embedded().
ResolveString ==
    /\ ~layout.called
    /\ layout' = [called |-> TRUE, class |-> RString(string_type),
                  embedded |-> is_embedded(RString(string_type), string_flags)]
    /\ UNCHANGED <<string_type, string_flags, heapVars, unwVars, valVars, typedVars,
                   stackVars, hashVars, lateVars>>

InitString ==
    /\ HeapNew({EmptyHeap})
    /\ fibers = NoFibers
    /\ UnwinderNew
    /\ ValueIdle
    /\ TypedIdle
    /\ StackIdle
    /\ HashIdle
    /\ string_type \in StringShapes
    /\ string_flags \in StringFlags
    /\ layout = NoLayout
    /\ LateIdle

NextString == ResolveString

SpecString == InitString /\ [][NextString]_vars

(***************************************************************************)
(* rb-fiber-switch and rb-fiber-scan-switch (fiber.py), with the caches    *)
(* that outlive a switch: the debugger's frame cache and the two caches    *)
(* of constants.py.  A fiber VALUE is the address of an RTypedData whose   *)
(* data field holds the fiber pointer.                                     *)
(***************************************************************************)
\* The fiber VALUEs of the target: the RTypedData at 100 + p holds data = p.
FiberValues == {100 + p : p \in FiberPointers}

\* RubyFiber._extract_fiber_pointer: typed_data['data'] of the VALUE.
extract_fiber_pointer(value) == value - 100

\* Pending-error words of a saved_ec: false, nil (two encodings), true, a
\* fixnum, a flonum, an inline symbol, a heap object.
ErrinfoWords == {0, 4, 8, 20, 1, 2, 12, 64}

\* Arguments of the two commands.
Arg(kind, value) == [kind |-> kind, value |-> value]
SwitchArgs ==
    {Arg(k, None) : k \in {"empty", "off", "invalid"}}
        \cup {Arg("value", v) : v \in FiberValues}
ScanSwitchArgs ==
    {Arg(k, None) : k \in {"empty", "invalid"}} \cup {Arg("index", i) : i \in -1 .. 2}

\* Names looked up through constants.get and constants.type_struct.
ConstantNames == {"RUBY_T_STRING"}
TypeNames == {"struct RBasic"}

\* The record of a command: what it was given, how it ended, and the
\* selection it found.
Command(name, arg, outcome) ==
    [name |-> name, arg |-> arg, outcome |-> outcome,
     current_fiber |-> current_fiber, active_fiber |-> active_fiber]

\* fiber.py: (errinfo_int & 0x03) != 0 or errinfo_int == 0
is_special(errinfo_int) == BitAnd(errinfo_int, 3) # 0 \/ errinfo_int = 0

\* The command leaves without selecting: nothing but its record changes.
SwitchFails(name, arg, outcome) ==
    /\ command' = Command(name, arg, outcome)
    /\ UNCHANGED <<current_fiber, convenience, cached_frames, unwVars>>

\* Faulty variant: the selection kept when the unwinder is deactivated
CurrentOnOffKept(fiber) == fiber

\* set_current_fiber(None) of the "off" branch
CurrentOnOff(fiber) == None

\* rb-fiber-switch off: deactivate(), set_current_fiber(None)
SwitchOff(name, arg) ==
    /\ Deactivate
    /\ current_fiber' = CurrentOnOff(current_fiber)
    /\ cached_frames' = FALSE
    /\ command' = Command(name, arg, "off")
    /\ UNCHANGED convenience

\* rb-fiber-switch <VALUE>: reading the status of an unreadable fiber struct
\* raises before anything is selected.
SwitchTo(name, arg, fiber_value) ==
    LET fiber_ptr == extract_fiber_pointer(fiber_value)
        errinfo_int == saved_ec[fiber_ptr]
    IN  IF ~fibers[fiber_ptr].readable THEN SwitchFails(name, arg, "raised")
        ELSE /\ current_fiber' = fiber_value
             /\ ActivateFiber(fiber_ptr)
             /\ cached_frames' = FALSE
             /\ convenience' =
                    [fiber_ptr |-> fiber_ptr,
                     errinfo |-> IF is_special(errinfo_int) THEN convenience.errinfo
                                 ELSE errinfo_int]
             /\ command' = Command(name, arg, "switched")

\* RubyFiberSwitchCommand.invoke(arg)
FiberSwitch(arg) ==
    /\ CASE arg.kind = "empty" -> SwitchFails("rb-fiber-switch", arg, "usage")
         [] arg.kind = "off" -> SwitchOff("rb-fiber-switch", arg)
         [] arg.kind = "invalid" -> SwitchFails("rb-fiber-switch", arg, "error")
         [] arg.kind = "value" -> SwitchTo("rb-fiber-switch", arg, arg.value)
    /\ UNCHANGED <<fiber_cache, saved_ec, CACHE, TYPE_CACHE>>

\* RubyFiberScanSwitchCommand.invoke(arg)
FiberScanSwitch(arg) ==
    /\ IF arg.kind = "empty" THEN SwitchFails("rb-fiber-scan-switch", arg, "usage")
       ELSE IF fiber_cache = <<>>
       THEN SwitchFails("rb-fiber-scan-switch", arg, "no fibers")
       ELSE IF arg.kind = "invalid"
       THEN SwitchFails("rb-fiber-scan-switch", arg, "invalid index")
       ELSE IF arg.value < 0 \/ arg.value >= Len(fiber_cache)
       THEN SwitchFails("rb-fiber-scan-switch", arg, "out of range")
       ELSE SwitchTo("rb-fiber-scan-switch", arg, fiber_cache[arg.value + 1])
    /\ UNCHANGED <<fiber_cache, saved_ec, CACHE, TYPE_CACHE>>

\* constants.get(name): the value is cached under its name.
Get(name) ==
    /\ CACHE' = CACHE \cup {name}
    /\ command' = Command("get", Arg(name, None),
                          IF name \in CACHE THEN "cached" ELSE "evaluated")
    /\ UNCHANGED <<current_fiber, fiber_cache, saved_ec, convenience, cached_frames,
                   TYPE_CACHE, unwVars>>

\* constants.type_struct(type_name): the type is cached under its name.
TypeStruct(type_name) ==
    /\ TYPE_CACHE' = TYPE_CACHE \cup {type_name}
    /\ command' = Command("type_struct", Arg(type_name, None),
                          IF type_name \in TYPE_CACHE THEN "cached" ELSE "looked up")
    /\ UNCHANGED <<current_fiber, fiber_cache, saved_ec, convenience, cached_frames,
                   CACHE, unwVars>>

\* The debugger unwinds (bt, frame, up): it asks the unwinder and keeps the
\* frames it computed.
Backtrace ==
    /\ Unwind
    /\ cached_frames' = TRUE
    /\ command' = Command("bt", Arg("none", None), "unwound")
    /\ UNCHANGED <<current_fiber, fiber_cache, saved_ec, convenience, CACHE,
                   TYPE_CACHE>>

\* The fiber memories of the switch commands: every saved block complete.
SwitchMemories ==
    {m \in FiberMemories :
        \A f \in FiberPointers \ {0} :
            m[f].stack_pointer = 4096 /\ m[f].block = SavedBlock(7777)}

InitSwitch ==
    /\ HeapNew({EmptyHeap})
    /\ fibers \in SwitchMemories
    /\ UnwinderNew
    /\ ValueIdle
    /\ TypedIdle
    /\ StackIdle
    /\ HashIdle
    /\ StringIdle
    /\ PrintIdle
    /\ current_fiber = None
    /\ fiber_cache \in {<<>>, <<101, 102>>}
    /\ saved_ec \in {m \in [FiberPointers -> ErrinfoWords] : m[0] = 0 /\ m[2] = 64}
    /\ convenience = NoConvenience
    /\ cached_frames = FALSE
    /\ CACHE = {}
    /\ TYPE_CACHE = {}
    /\ command = NoCommand

switchRest == <<heapVars, valVars, typedVars, stackVars, hashVars, stringVars, printVars>>

NextSwitch ==
    \/ /\ \E arg \in SwitchArgs : FiberSwitch(arg)
       /\ UNCHANGED switchRest
    \/ /\ \E arg \in ScanSwitchArgs : FiberScanSwitch(arg)
       /\ UNCHANGED switchRest
    \/ /\ \E name \in ConstantNames : Get(name)
       /\ UNCHANGED switchRest
    \/ /\ \E type_name \in TypeNames : TypeStruct(type_name)
       /\ UNCHANGED switchRest
    \/ /\ Backtrace
       /\ UNCHANGED switchRest

SpecSwitch == InitSwitch /\ [][NextSwitch]_vars

\* ---------------------------------------------------------------------
\* Recursive printing: rb-print and rb-object-print render a VALUE with a
\* Printer of a maximum depth; arrays, hashes and structs render their
\* children through Printer.print_value.

\* The two heap objects of the target, and the words a container may hold:
\* a reference to either object, the fixnum 1 and Qundef (the key of a
\* deleted pair of an AR table).
\* The deepest rendering asked for
MaxDepth == 2

ObjectAddresses == {16, 32}
ItemWords == ObjectAddresses \cup {3, RUBY_Qundef}
ContainerTypes == {"T_ARRAY", "T_HASH", "T_STRUCT"}

\* An object is its type and the words it holds: the elements of an array,
\* the fields of a struct, key and value of the one pair of a hash's table.
ItemLists == {<<>>} \cup [1..1 -> ItemWords] \cup [1..2 -> ItemWords]
HeapObjects ==
    {[type |-> t, items |-> s] : t \in {"T_ARRAY", "T_STRUCT"}, s \in ItemLists}
        \cup {[type |-> "T_HASH", items |-> s] : s \in {<<>>} \cup [1..2 -> ItemWords]}
        \cup {[type |-> "T_STRING", items |-> <<>>]}

\* value.interpret: the wrapper class chosen for a word
WrapperClass(val_int) ==
    IF BitAnd(val_int, 3) = 2 THEN "RFloat"
    ELSE IF val_int % 256 = 12 THEN "RSymbol"
    ELSE IF val_int \in {0, 4, 8, 20} \/ val_int % 2 = 1 THEN "RImmediate"
    ELSE IF val_int \in DOMAIN containers THEN containers[val_int].type
    \* the header cannot be read: the generic wrapper
    ELSE "RBasic"

\* RHashARTable.pairs: the pairs whose key is not Qundef
live_pairs(value) ==
    LET items == containers[value].items
    IN  IF items = <<>> \/ items[1] = RUBY_Qundef THEN <<>> ELSE <<items>>

\* len(self) of an array or struct, size() of a hash
Length(value) ==
    IF containers[value].type = "T_HASH" THEN Len(live_pairs(value))
    ELSE Len(containers[value].items)

\* A line of output: the object printed by printer.print, the label of a
\* child or the placeholder, with the depth it was printed at and, where
\* the line is indented, the indentation.
Line(kind, value, depth, indent) ==
    [kind |-> kind, value |-> value, depth |-> depth, indent |-> indent]

\* Faulty variant: the recursion stops one level later
BelowDepthLimit(depth) == depth < 0

\* if depth <= 0
AtDepthLimit(depth) == depth <= 0

RECURSIVE print_value(_, _, _)
RECURSIVE print_items(_, _, _, _)
\* for i in range(len(self)): print_item_label, then print_value(self[i], depth - 1)
print_items(value, i, depth, max_depth) ==
    IF i > Len(containers[value].items) THEN <<>>
    ELSE <<Line("item", i - 1, depth, max_depth - depth)>>
             \o print_value(containers[value].items[i], depth - 1, max_depth)
             \o print_items(value, i + 1, depth, max_depth)

RECURSIVE print_pairs(_, _, _, _)
\* for i, (key, value) in enumerate(self.live_pairs()): the key, then the value
print_pairs(ps, i, depth, max_depth) ==
    IF i > Len(ps) THEN <<>>
    ELSE <<Line("key", i - 1, depth, max_depth - depth)>>
             \o print_value(ps[i][1], depth - 1, max_depth)
             \o <<Line("value", i - 1, depth, max_depth - depth)>>
             \o print_value(ps[i][2], depth - 1, max_depth)
             \o print_pairs(ps, i + 1, depth, max_depth)

\* Printer.print_value(ruby_value, depth): interpret, then the wrapper's
\* print_recursive(printer, depth)
print_value(ruby_value, depth, max_depth) ==
    LET printed == <<Line("object", ruby_value, depth, None)>>
    IN  IF WrapperClass(ruby_value) \notin ContainerTypes THEN printed
        ELSE IF AtDepthLimit(depth)
        THEN IF Length(ruby_value) > 0
             THEN printed \o <<Line("...", ruby_value, depth, max_depth - depth)>>
             ELSE printed
        ELSE IF WrapperClass(ruby_value) = "T_HASH"
        THEN printed \o print_pairs(live_pairs(ruby_value), 1, depth, max_depth)
        ELSE printed \o print_items(ruby_value, 1, depth, max_depth)

\* rb-print <expression> --depth max_depth: a depth below 1 is refused, else
\* the value is rendered from depth max_depth.
RbPrint(ruby_value, max_depth) ==
    /\ rendering' = [called |-> TRUE, value |-> ruby_value, max_depth |-> max_depth,
                     lines |-> IF max_depth < 1 THEN <<>>
                               ELSE print_value(ruby_value, max_depth, max_depth)]
    /\ UNCHANGED <<containers, heapVars, unwVars, valVars, typedVars, stackVars,
                   hashVars, stringVars, switchVars>>

InitPrint ==
    /\ containers \in [ObjectAddresses -> HeapObjects]
    /\ rendering = NoRendering
    /\ HeapNew({EmptyHeap})
    /\ fibers = NoFibers
    /\ UnwinderNew
    /\ ValueIdle
    /\ TypedIdle
    /\ StackIdle
    /\ HashIdle
    /\ StringIdle
    /\ SwitchIdle

NextPrint == \E v \in ItemWords, d \in 0..MaxDepth : RbPrint(v, d)

SpecPrint == InitPrint /\ [][NextPrint]_vars

(***************************************************************************)
(* What the snapshot holds, read off the page table directly: the live     *)
(* slots in ascending page index, then ascending slot index.               *)
(***************************************************************************)
SlotAddr(i, j) == pages[i].start + j * pages[i].slot_size

RECURSIVE LiveSlots(_, _)
LiveSlots(i, j) ==
    IF j >= pages[i].total_slots THEN <<>>
    ELSE (IF pages[i].flags[j + 1] # 0
          THEN <<[addr |-> SlotAddr(i, j), flags |-> pages[i].flags[j + 1]]>>
          ELSE <<>>) \o LiveSlots(i, j + 1)

RECURSIVE LiveFrom(_, _)
LiveFrom(i, j) ==
    IF i >= allocated_pages THEN <<>>
    ELSE LiveSlots(i, j) \o LiveFrom(i + 1, 0)

InHeap(a) == \E i \in DOMAIN pages : InPage(pages[i], a)
PageOf(a) == CHOOSE i \in DOMAIN pages : InPage(pages[i], a)

\* The live slots at or after address a in scan order; all of them when a is
\* None or in no page.
LiveAfter(a) ==
    IF a # None /\ InHeap(a)
    THEN LiveFrom(PageOf(a), (a - pages[PageOf(a)].start) \div pages[PageOf(a)].slot_size)
    ELSE LiveFrom(0, 0)

HasTag(item, t) == t = None \/ item.flags % 32 = t
Matching(items, t) == SelectSeq(items, LAMBDA item : HasTag(item, t))
Addrs(items) == [k \in 1 .. Len(items) |-> items[k].addr]
IsPrefix(s, t) == Len(s) <= Len(t) /\ s = SubSeq(t, 1, Len(s))
NoRepeat(s) == \A j, k \in 1 .. Len(s) : j # k => s[j] # s[k]

(***************************************************************************)
(* C1: for a limit N >= 1, the objects returned by scan(type, limit=N) and *)
(* the calls resumed from next_address until it is None are, concatenated, *)
(* exactly the list of one unbounded scan(type): the live slots matching   *)
(* the type in ascending page and slot index, none twice and none skipped. *)
(***************************************************************************)
C1_PaginationEqualsUnbounded ==
    (phase \in {"paging", "done"} /\ call.limit >= 1) =>
        LET whole == Addrs(Matching(LiveFrom(0, 0), call.type_flag))
        IN  /\ scan(call.type_flag, None, None).objects = whole
            /\ scan(call.type_flag, None, None).next_address = None
            /\ IsPrefix(collected, whole)
            /\ NoRepeat(collected)
            /\ call.from_address # None => Len(objects) >= 1
            /\ phase = "done" => collected = whole

\* A pagination of limit 1 that ended after three calls over both pages.
C1_Witness ==
    /\ phase = "done"
    /\ call.limit = 1
    /\ Len(collected) = 3
    /\ allocated_pages = 2
    /\ find_page_for_address(collected[1]) = 0
    /\ find_page_for_address(collected[3]) = 1

(***************************************************************************)
(* C2 as stated: on the scenario heap, scan(type_flag=0x05, limit=1)       *)
(* returns slot 0 and the address of slot 1, and the follow-up scan from   *)
(* that address with no filter and no limit returns only the 0x07 object   *)
(* (slot 3) and next_address None.                                         *)
(***************************************************************************)
ScenarioFollowUp ==
    /\ pages = ScenarioHeap
    /\ phase = "followup"
    /\ prev.call = [type_flag |-> 5, limit |-> 1, from_address |-> None]
    /\ call.type_flag = None
    /\ call.limit = None

C2_AsStated ==
    ScenarioFollowUp =>
        /\ prev.objects = <<SlotAddr(0, 0)>>
        /\ prev.next_address = SlotAddr(0, 1)
        /\ objects = <<SlotAddr(0, 3)>>
        /\ next_address = None

(***************************************************************************)
(* C2, amended: the follow-up scan starts at the slot its resume address   *)
(* names, so it returns the second 0x05 object (slot 1) and then the 0x07  *)
(* object (slot 3), and next_address None.                                 *)
(***************************************************************************)
C2_ScenarioFollowUp ==
    ScenarioFollowUp =>
        /\ prev.objects = <<SlotAddr(0, 0)>>
        /\ prev.next_address = SlotAddr(0, 1)
        /\ call.from_address = SlotAddr(0, 1)
        /\ objects = <<SlotAddr(0, 1), SlotAddr(0, 3)>>
        /\ next_address = None

C2_Witness == ScenarioFollowUp /\ Len(objects) = 2

(***************************************************************************)
(* C3: the heap iterator never yields, and scan never returns, a slot      *)
(* whose flags word is 0, for any page table and resume address, whether   *)
(* the page was bulk-read or read slot by slot.  (scan without filter and  *)
(* limit returns every slot the iterator yields; iterate_heap is the       *)
(* iterator with no resume address.)                                       *)
(***************************************************************************)
C3_NoFreeSlotYielded ==
    phase = "adhoc" =>
        \A k \in 1 .. Len(objects) : InHeap(objects[k]) /\ Memory(objects[k]) # 0

\* An unfiltered scan resumed inside a page, slots read one by one, that
\* passed a free slot and returned a live one after it.
C3_Witness ==
    /\ phase = "adhoc"
    /\ bulk_ok = {}
    /\ call.type_flag = None
    /\ call.limit = None
    /\ found_page # None
    /\ Memory(call.from_address) = 0
    /\ Len(objects) >= 1

(***************************************************************************)
(* C4: every object returned by scan(type_flag=T, ...) has                 *)
(* (flags & 0x1f) = T, and so has the slot at next_address when it is not  *)
(* None.                                                                   *)
(***************************************************************************)
C4_OnlyTypeReturned ==
    (phase = "adhoc" /\ call.type_flag # None) =>
        /\ \A k \in 1 .. Len(objects) : Memory(objects[k]) % 32 = call.type_flag
        /\ next_address # None => Memory(next_address) % 32 = call.type_flag

\* A filtered scan over slots of both types that stopped at its limit.
C4_Witness ==
    /\ phase = "adhoc"
    /\ call.type_flag = 5
    /\ Len(objects) >= 1
    /\ next_address # None
    /\ LET items == iterate_heap_from(call.from_address)
       IN  \E k \in 1 .. Len(items) : items[k].flags = 7

(***************************************************************************)
(* C5: with a limit N >= 1, scan returns a next_address other than None    *)
(* exactly when more than N live objects matching the filter lie at or     *)
(* after the start of the scan, and it is then the address of the          *)
(* (N+1)-th of them; when N or fewer remain the scan reaches the end of    *)
(* the pages and next_address is None.  With no limit (None, or 0, which   *)
(* the code takes for none) the scan reaches the end and it is None.       *)
(***************************************************************************)
C5_NextAddress ==
    phase = "adhoc" =>
        LET rest == Addrs(Matching(LiveAfter(call.from_address), call.type_flag))
        IN  /\ call.limit >= 1 =>
                /\ (next_address # None) <=> (Len(rest) > call.limit)
                /\ Len(rest) > call.limit =>
                        /\ next_address = rest[call.limit + 1]
                        /\ objects = SubSeq(rest, 1, call.limit)
                /\ Len(rest) <= call.limit => objects = rest
            /\ call.limit \in {None, 0} => (next_address = None /\ objects = rest)

\* Exactly limit matching objects remained after the resume address.
C5_Witness ==
    /\ phase = "adhoc"
    /\ call.limit = 2
    /\ call.type_flag = 5
    /\ found_page # None
    /\ Len(objects) = 2
    /\ next_address = None
    /\ Len(Matching(LiveFrom(0, 0), 5)) > 2

\* More than limit matching objects remained.
C5_WitnessMore ==
    /\ phase = "adhoc"
    /\ call.limit = 1
    /\ found_page = 0
    /\ next_address # None
    /\ find_page_for_address(next_address) = 1

(***************************************************************************)
(* C6: for every integer limit >= 0 passed to scan, the returned list has  *)
(* at most limit elements.                                                 *)
(***************************************************************************)
C6_AtMostLimit ==
    (phase # "idle" /\ call.limit # None /\ call.limit >= 0) =>
        Len(objects) <= call.limit

(***************************************************************************)
(* C7: a resume address in no page's range makes the scanner warn and      *)
(* yield exactly what a scan with no resume address yields: it restarts    *)
(* at page 0, slot 0.                                                      *)
(***************************************************************************)
C7_UnknownAddressRestarts ==
    (phase = "adhoc" /\ call.from_address # None /\ ~InHeap(call.from_address)) =>
        /\ warned
        /\ found_page = None
        /\ iterate_heap_from(call.from_address) = LiveFrom(0, 0)
        /\ iterate_heap_from(call.from_address) = iterate_heap
        /\ objects = scan(call.type_flag, call.limit, None).objects
        /\ next_address = scan(call.type_flag, call.limit, None).next_address

\* A scan from the first address past a heap of two pages with live slots.
C7_Witness ==
    /\ phase = "adhoc"
    /\ call.from_address = HeapEnd
    /\ allocated_pages = 2
    /\ warned
    /\ Len(objects) >= 2
    /\ find_page_for_address(objects[1]) = 0

(***************************************************************************)
(* C8: _find_page_for_address(a) returns i only if                         *)
(* start_i <= a < start_i + total_slots_i * slot_size_i; when page k ends  *)
(* where page k+1 starts, the start address of page k+1 resolves to k+1,   *)
(* and a scan resumed there begins at slot 0 of page k+1.                  *)
(***************************************************************************)
C8_PageOfAddress ==
    (phase = "adhoc" /\ call.from_address # None) =>
        /\ find_arg = call.from_address
        /\ found_page # None =>
               /\ found_page \in DOMAIN pages
               /\ pages[found_page].start <= find_arg
               /\ find_arg < pages[found_page].start
                      + pages[found_page].total_slots * pages[found_page].slot_size
        /\ \A k \in DOMAIN pages :
               (/\ k + 1 \in DOMAIN pages
                /\ pages[k + 1].total_slots > 0
                /\ PageEnd(pages[k]) = pages[k + 1].start
                /\ find_arg = pages[k + 1].start) =>
                   /\ found_page = k + 1
                   /\ ~warned
                   /\ iterate_heap_from(find_arg) = LiveFrom(k + 1, 0)

\* A scan resumed at the start of page 1, which is the end of a page 0 that
\* has slots.
C8_Witness ==
    /\ phase = "adhoc"
    /\ allocated_pages = 2
    /\ pages[0].total_slots > 0
    /\ pages[1].total_slots > 0
    /\ call.from_address = pages[1].start
    /\ PageEnd(pages[0]) = pages[1].start
    /\ found_page = 1
    /\ call.type_flag = None
    /\ call.limit = None
    /\ Len(objects) >= 1
    /\ objects[1] = pages[1].start

(***************************************************************************)
(* C9: between one activate_fiber and the next activate_fiber or           *)
(* deactivate the unwinder returns unwind info for at most one invocation; *)
(* once it has produced the frame every later invocation returns None;     *)
(* and with a readable saved block whose stack pointer and return address  *)
(* are non-zero, an invocation with no frame produced yet (the first after *)
(* activation) produces it.                                                *)
(***************************************************************************)
GoodContext(f) ==
    /\ IsActive(f)
    /\ fibers[f].readable
    /\ fibers[f].stack_pointer # 0
    /\ fibers[f].block[7] # 0

C9_OneFramePerActivation ==
    /\ produced <= 1
    /\ unwound_first_frame <=> produced = 1
    /\ (last_op.op = "call" /\ before.unwound_first_frame) =>
           (last_result = NoFrame /\ unwound_first_frame)
    /\ (last_op.op = "call" /\ ~before.unwound_first_frame
            /\ GoodContext(before.active_fiber)) =>
           /\ last_result # NoFrame
           /\ last_result.rip = fibers[active_fiber].block[7]
           /\ produced = 1

\* The frame was produced and a later invocation returned None.
C9_Witness ==
    /\ last_op.op = "call"
    /\ before.unwound_first_frame
    /\ GoodContext(active_fiber)
    /\ produced = 1
    /\ last_result = NoFrame

(***************************************************************************)
(* C10: the unwinder is Inactive (active_fiber is None) or Active on one   *)
(* fiber; while Inactive every invocation returns None; activate_fiber(f)  *)
(* while another fiber is active replaces it with f and resets the         *)
(* first-frame-produced flag; deactivate returns to Inactive with the flag *)
(* false.                                                                  *)
(***************************************************************************)
C10_InactiveOrOneFiber ==
    /\ active_fiber \in {None} \cup FiberPointers
    /\ active_fiber = None => (~unwound_first_frame /\ produced = 0)
    /\ (last_op.op = "call" /\ before.active_fiber = None) =>
           (last_result = NoFrame /\ active_fiber = None)
    /\ last_op.op = "activate" =>
           (active_fiber = last_op.arg /\ ~unwound_first_frame)
    /\ last_op.op = "deactivate" =>
           (active_fiber = None /\ ~unwound_first_frame)

\* A fiber was activated while another one was active with its frame produced.
C10_Witness ==
    /\ last_op.op = "activate"
    /\ before.active_fiber \notin {None, last_op.arg}
    /\ before.unwound_first_frame
    /\ active_fiber = last_op.arg
    /\ GoodContext(active_fiber)

(***************************************************************************)
(* C11: when the active fiber's saved stack pointer is zero, the return    *)
(* address word at saved block + 48 is zero, or the saved block cannot be  *)
(* read, an invocation of the unwinder returns None and leaves the         *)
(* first-frame-produced flag and the active fiber as they were.            *)
(***************************************************************************)
BadContext(f) ==
    \/ ~fibers[f].readable
    \/ fibers[f].stack_pointer = 0
    \/ SavedWord(f, SavedRegistersSize \div WordSize) = 0

C11_NoFrameOnBadContext ==
    (last_op.op = "call" /\ IsActive(before.active_fiber)
        /\ BadContext(before.active_fiber)) =>
        /\ last_result = NoFrame
        /\ unwound_first_frame = before.unwound_first_frame
        /\ active_fiber = before.active_fiber

\* The first invocation after activation met a readable block whose return
\* address word is zero.
C11_Witness ==
    /\ last_op.op = "call"
    /\ IsActive(before.active_fiber)
    /\ ~before.unwound_first_frame
    /\ fibers[active_fiber].readable
    /\ fibers[active_fiber].stack_pointer # 0
    /\ SavedWord(active_fiber, SavedRegistersSize \div WordSize) = 0
    /\ last_result = NoFrame
    /\ ~unwound_first_frame

(***************************************************************************)
(* The words the classifier's decision order makes immediates: the         *)
(* singletons false, nil and true, fixnums, flonums and inline symbols.    *)
(***************************************************************************)
SingletonWord(w) == w \in {0, 4, 8, 20}
FixnumWord(w) == w % 2 = 1
FlonumWord(w) == w % 4 = 2
InlineSymbolWord(w) == w % 256 = 12
ImmediateWord(w) ==
    SingletonWord(w) \/ FixnumWord(w) \/ FlonumWord(w) \/ InlineSymbolWord(w)

ImmediateKinds == {"RImmediate", "RFloatImmediate", "RSymbolImmediate"}

(***************************************************************************)
(* C12: RubyContext.has_exception is false for every pending-error slot    *)
(* word that is a singleton constant or another immediate, whatever the    *)
(* target memory holds.                                                    *)
(***************************************************************************)
C12_NoExceptionForImmediates ==
    (vop.op = "has_exception" /\ vop.word # None /\ ImmediateWord(vop.word)) =>
        ~vret.truth

(***************************************************************************)
(* C13: interpret(w) for a heap reference w whose object header cannot be  *)
(* read returns the generic header-only view and raises nothing.           *)
(***************************************************************************)
C13_UnreadableHeaderGeneric ==
    (vop.op = "interpret" /\ ~ImmediateWord(vop.word) /\ ~header.readable) =>
        vret.kind = "RBasic"

(***************************************************************************)
(* C14: interpret(w) returns a wrapper for every word w, chosen in the     *)
(* fixed order: inline float if (w & 3) = 2, else inline symbol if         *)
(* (w & 0xff) = 0x0c, else immediate if w is 0, 4, 8, 0x14 or has bit 0    *)
(* set, otherwise the decoder of the type tag in the low five bits of the  *)
(* object's flags, the generic view for any other tag.                     *)
(***************************************************************************)
DecoderOfTag(tag) ==
    CASE tag = 5 -> "RString"
      [] tag = 7 -> "RArray"
      [] tag = 8 -> "RHash"
      [] tag = 9 -> "RStruct"
      [] tag = 20 -> "RSymbolObject"
      [] tag = 4 -> "RFloatObject"
      [] tag = 10 -> "RBignumObject"
      [] OTHER -> "RBasic"

C14_WrapperByDecisionOrder ==
    vop.op = "interpret" =>
        LET w == vop.word
        IN  /\ vret.kind \notin {"none", "raise"}
            /\ vret.kind =
                 IF FlonumWord(w) THEN "RFloatImmediate"
                 ELSE IF InlineSymbolWord(w) THEN "RSymbolImmediate"
                 ELSE IF SingletonWord(w) \/ FixnumWord(w) THEN "RImmediate"
                 ELSE IF header.readable THEN DecoderOfTag(header.flags % 32)
                 ELSE "RBasic"

(***************************************************************************)
(* C15: for every word w with bit 0 set, interpret(w) is an immediate, not *)
(* a flonum, a symbol or a heap object, and re-encoding the number it      *)
(* decodes gives w back: ((w >> 1) << 1) | 1 = w.                          *)
(***************************************************************************)
C15_FixnumRoundTrip ==
    (vop.op = "interpret" /\ vop.word % 2 = 1) =>
        /\ vret.kind = "RImmediate"
        /\ vret.payload # None
        /\ BitOr(ShiftLeft(vret.payload, 1), 1) = vop.word

\* A fixnum with a nonzero payload was interpreted while the target held a
\* readable header.
C15_Witness ==
    /\ vop.op = "interpret"
    /\ vop.word % 2 = 1
    /\ vop.word > 256
    /\ header.readable
    /\ vret.kind = "RImmediate"
    /\ vret.payload = vop.word \div 2

(***************************************************************************)
(* C16: is_immediate(w) is true for every immediate word (fixnum, inline   *)
(* symbol, flonum, false, nil, true) and is_object(w) is true exactly for  *)
(* the remaining words.                                                    *)
(***************************************************************************)
C16_ImmediateAgreesWithInterpret ==
    /\ vop.op = "is_immediate" => (vret.truth <=> ImmediateWord(vop.word))
    /\ vop.op = "is_object" => (vret.truth <=> ~ImmediateWord(vop.word))
    /\ vop.op = "interpret" =>
           (is_immediate(vop.word) <=> vret.kind \in ImmediateKinds)

(***************************************************************************)
(* C17: every call of find_typed_data that meets a T_DATA object whose     *)
(* type field cannot be read stops the scan at that object and emits the   *)
(* diagnostic, for each call in any sequence of calls on one RubyHeap      *)
(* instance: no call stops there silently.                                 *)
(***************************************************************************)
\* The first live T_DATA slot whose type field reads as None, if any.
UnreadableTyped ==
    {a \in {SlotAddr(0, j) : j \in 0 .. pages[0].total_slots - 1} :
        /\ TypeTag(Memory(a)) = RUBY_T_DATA
        /\ TypeField(a) = None}

C17_DiagnosticEveryCall ==
    typed_ret.calls > 0 =>
        /\ typed_ret.stopped # None => typed_ret.diagnostic
        /\ (typed_ret.limit = None /\ UnreadableTyped # {}) =>
               /\ typed_ret.stopped \in UnreadableTyped
               /\ \A a \in UnreadableTyped : typed_ret.stopped <= a
               /\ typed_ret.diagnostic

(***************************************************************************)
(* C19: during print_backtrace a failure to read a control frame (memory   *)
(* that cannot be read, or a frame field reported as absent) prints an     *)
(* error marker for that frame and ends the walk; the frames printed       *)
(* before it stay printed and no exception leaves print_backtrace.         *)
(***************************************************************************)
\* Reading the fields of the control frame fails.
FrameUnreadable(f) ==
    \/ f.iseq \in {None, Unreadable}
    \/ f.iseq # 0 /\ f.pc \in {None, Unreadable}

FailingFrames == {k \in 1 .. Len(frames) : FrameUnreadable(frames[k])}

C19_FrameFailureEndsWalk ==
    backtrace.called =>
        /\ backtrace.raised = ""
        /\ FailingFrames # {} =>
               LET k == CHOOSE i \in FailingFrames : \A j \in FailingFrames : i <= j
               IN  /\ Len(backtrace.lines) = k
                   /\ backtrace.lines[k] = "error reading frame"
                   /\ \A i \in 1 .. k - 1 :
                          backtrace.lines[i] = print_frame(frames[i]).line

(***************************************************************************)
(* C18: RHashARTable.pairs() examines slots 0 .. bound-1 and yields the    *)
(* (key, value) pair of exactly those slots whose key is not RUBY_Qundef,  *)
(* in slot order; no yielded key is the sentinel and the number of pairs   *)
(* yielded does not depend on the size field.                              *)
(***************************************************************************)
\* The bound field of the flags word: bits 20..23.
BoundField == (ar_table.flags \div 1048576) % 16

\* The slots below the bound that hold a key (slot i at pairs[i + 1]).
KeptSlots == {i \in 0 .. BoundField - 1 : ar_table.pairs[i + 1].key # 36}

C18_PairsBelowBound ==
    hash_ret.called =>
        /\ Len(hash_ret.pairs) = Cardinality(KeptSlots)
        /\ \A n \in 1 .. Len(hash_ret.pairs) :
               /\ hash_ret.pairs[n][1] # 36
               /\ \E i \in KeptSlots :
                      /\ Cardinality({j \in KeptSlots : j < i}) = n - 1
                      /\ hash_ret.pairs[n] =
                             <<ar_table.pairs[i + 1].key, ar_table.pairs[i + 1].val>>

\* A deleted slot below the bound was skipped, a slot after it was yielded,
\* a filled slot at the bound was not, and the size field differs from the
\* number of pairs.
C18_Witness ==
    /\ hash_ret.called
    /\ BoundField = 2
    /\ ar_table.pairs[1].key = 36
    /\ ar_table.pairs[2].key # 36
    /\ ar_table.pairs[3].key # 36
    /\ hash_ret.pairs = <<<<ar_table.pairs[2].key, ar_table.pairs[2].val>>>>
    /\ hash_ret.size # Len(hash_ret.pairs)

(***************************************************************************)
(* C20: when struct RString has neither a top-level len field nor an       *)
(* as.embed.len field, the RString factory reports an unsupported-build    *)
(* error and selects no layout.                                            *)
(***************************************************************************)
LayoutClasses == {"RString34", "RString33", "RString32RVARGC", "RString32Legacy"}

C20_UnknownShapeIsError ==
    (layout.called /\ ~string_type.len /\ ~string_type.embed_len) =>
        layout.class \notin LayoutClasses


(***************************************************************************)
(* C21: whenever the active fiber context changes (rb-fiber-switch to a    *)
(* fiber, to another fiber, or off), every cache is invalidated: the       *)
(* debugger's cached frames and the caches constants._CACHE and            *)
(* constants._TYPE_CACHE hold nothing from before the change.              *)
(***************************************************************************)
C21_SwitchInvalidatesCaches ==
    command.outcome \in {"switched", "off"} =>
        /\ ~cached_frames
        /\ CACHE = {}
        /\ TYPE_CACHE = {}

(***************************************************************************)
(* C22: after an rb-heap-scan that found objects and stopped at its limit, *)
(* $heap holds the address of the last object found, the one the           *)
(* invocation returned last.                                               *)
(***************************************************************************)
C22_HeapHoldsLastFound ==
    (/\ phase = "paging"
     /\ Truthy(call.limit)
     /\ Len(objects) = call.limit
     /\ next_address # None) =>
        heap_variable = objects[Len(objects)]

(***************************************************************************)
(* C23: a page whose descriptor cannot be read, a page with invalid        *)
(* dimensions and a slot whose flags cannot be read are skipped: no        *)
(* exception leaves the scan, and a scan of the whole heap returns every   *)
(* matching live slot that can be read, in page and slot order.            *)
(***************************************************************************)
CanRead(item) ==
    /\ item.addr \notin unreadable.slots
    /\ \A i \in unreadable.pages : ~InPage(pages[i], item.addr)

C23_FailuresAreSkipped ==
    phase = "adhoc" =>
        /\ ~scan_error
        /\ (call.from_address = None /\ ~Truthy(call.limit)) =>
                objects = Addrs(Matching(SelectSeq(LiveFrom(0, 0), CanRead),
                                         call.type_flag))

(***************************************************************************)
(* C24: the RString factory selects the layout from the fields struct      *)
(* RString has: a top-level len without as.embed.len gives RString34, a    *)
(* top-level len with as.embed.len gives RString33, as.embed.len without   *)
(* a top-level len gives RString32RVARGC, neither gives RString32Legacy.   *)
(***************************************************************************)
LayoutOfFields(shape) ==
    IF shape.len THEN (IF shape.embed_len THEN "RString33" ELSE "RString34")
    ELSE IF shape.embed_len THEN "RString32RVARGC"
    ELSE "RString32Legacy"

C24_LayoutByFields ==
    layout.called => layout.class = LayoutOfFields(string_type)

(***************************************************************************)
(* C25: the payload decoded from a fixnum word is the word shifted right   *)
(* by one bit arithmetically, the top bit of the word being its sign: a    *)
(* fixnum word with the top bit set decodes to a negative integer, the     *)
(* all-ones word to -1.  (Words are WordBits wide in the model.)           *)
(***************************************************************************)
SignedWord(w) == IF w >= 2 ^ (WordBits - 1) THEN w - 2 ^ WordBits ELSE w

C25_FixnumArithmeticShift ==
    (vop.op = "interpret" /\ FixnumWord(vop.word)) =>
        /\ vret.kind = "RImmediate"
        /\ vret.payload = SignedWord(vop.word) \div 2

(***************************************************************************)
(* C26: a frame the unwinder produces from the saved block at base B has   *)
(* as return address the word at B + 48, the seventh word of the block,    *)
(* after r15, r14, r13, r12, rbx, rbp at B + 0 .. B + 40 in that order;    *)
(* its stack pointer is B + 48 + 8 = B + 56, and its frame id is the pair  *)
(* of that stack pointer and that return address.                          *)
(***************************************************************************)
C26_FrameFromSavedBlock ==
    (last_op.op = "call" /\ last_result # NoFrame) =>
        LET ctx == fibers[active_fiber]
            B == ctx.stack_pointer
        IN  /\ B # 0
            /\ last_result.rip = ctx.block[7]
            /\ last_result.rsp = B + 56
            /\ last_result.frame_id = <<B + 56, ctx.block[7]>>
            /\ <<last_result.r15, last_result.r14, last_result.r13,
                 last_result.r12, last_result.rbx, last_result.rbp>>
                    = SubSeq(ctx.block, 1, 6)

\* A frame was produced from the block at 4096 whose seventh word is 7777.
C26_Witness ==
    /\ last_op.op = "call"
    /\ last_result # NoFrame
    /\ fibers[active_fiber].stack_pointer = 4096
    /\ last_result.frame_id = <<4152, 7777>>
    /\ last_result.rbp = 5

\* ---------------------------------------------------------------------
\* C27: print_backtrace hands the control frames at cfp, cfp + 1 frame,
\* cfp + 2 frames, ... to _print_frame in ascending address order, each
\* once, and every one of them lies before (vm_stack + vm_stack_size)
\* minus one frame, so that the walk ends after at most that many frames
\* and visits all of them when no frame fails; with cfp at or beyond that
\* end it visits no frame and prints the "(no frames)" line alone.
C27_WalkStaysBelowEnd ==
    backtrace.called =>
        LET end   == (ec.vm_stack + ec.vm_stack_size) - ControlFrameSize
            most  == IF ec.cfp < end
                     THEN (end - ec.cfp + ControlFrameSize - 1) \div ControlFrameSize
                     ELSE 0
            count == Len(backtrace.visited)
        IN  /\ \A k \in 1..count :
                /\ backtrace.visited[k] = ec.cfp + (k - 1) * ControlFrameSize
                /\ backtrace.visited[k] < end
            /\ count <= most
            /\ (backtrace.raised = "" /\ backtrace.lines # <<>>
                  /\ backtrace.lines[Len(backtrace.lines)]
                         \notin {"error reading frame", "(no frames)"})
               => count = most
            /\ ec.cfp >= end =>
                  /\ backtrace.visited = <<>>
                  /\ backtrace.lines = <<"(no frames)">>
                  /\ backtrace.raised = ""

\* Reached: a walk of two frames from a cfp that is not a whole number of
\* frames below the end, and a walk from a cfp beyond the end.
C27_Witness ==
    /\ backtrace.called
    /\ ec.cfp = 19
    /\ backtrace.visited = <<19, 21>>
    /\ Len(backtrace.lines) = 2

C27_WitnessBeyond ==
    /\ backtrace.called
    /\ ec.cfp > 22
    /\ backtrace.lines = <<"(no frames)">>

\* ---------------------------------------------------------------------
\* C28: a rendering from depth max_depth prints the starting object at
\* that depth and no object below depth 0; every other object printed is
\* a child of the container printed last at the depth above it, one
\* level lower; a container at depth 0 prints its line, then the "..."
\* placeholder exactly when it is not empty, and none of its children;
\* a container above depth 0 prints every one of its children.  The
\* rendering is finite whether or not a container holds itself.
Children(value) ==
    IF containers[value].type = "T_HASH"
    THEN IF live_pairs(value) = <<>> THEN <<>> ELSE containers[value].items
    ELSE containers[value].items

IsContainer(value) ==
    value \in DOMAIN containers /\ containers[value].type \in ContainerTypes

SpecialConstant(w) ==
    \/ w \in {0, 4, 8, 20}
    \/ w % 2 = 1
    \/ BitAnd(w, 3) = 2
    \/ w % 256 = 12

C29_ErrinfoOnlyHeapObject ==
    convenience.errinfo # None => ~SpecialConstant(convenience.errinfo)

\* ---------------------------------------------------------------------
\* C30: in every state reached by rb-fiber-switch and rb-fiber-scan-switch
\* commands, the selected fiber is None exactly when the unwinder's
\* active fiber is None, and otherwise the active fiber is the struct the
\* selected Fiber VALUE wraps; after a command that ended with its usage,
\* an error message or an exception before selecting, both are what they
\* were before the command.
FailedOutcomes ==
    {"usage", "error", "raised", "no fibers", "invalid index", "out of range"}

C30_SelectionMatchesUnwinder ==
    /\ (current_fiber = None) <=> (active_fiber = None)
    /\ current_fiber # None => extract_fiber_pointer(current_fiber) = active_fiber
    /\ command.outcome \in FailedOutcomes =>
          /\ current_fiber = command.current_fiber
          /\ active_fiber = command.active_fiber

\* Reached: an out-of-range cache index given while a fiber is selected,
\* and a switch to an unreadable fiber struct while another is selected.
C30_Witness ==
    /\ command.outcome = "out of range"
    /\ current_fiber = 102
    /\ active_fiber = 2

C30_WitnessRaised ==
    /\ command.outcome = "raised"
    /\ current_fiber # None
    /\ command.arg.value # current_fiber

====
